---- MODULE Spec2Model ----
(***************************************************************************)
(* A model of nio/store/database.py: the SQLite-backed store of an         *)
(* end-to-end-encryption client (LegacyMatrixStore, MatrixStore,           *)
(* DefaultStore, SqliteStore).                                             *)
(*                                                                         *)
(* The database is a function from the names of the tables that exist to   *)
(* their rows.  A foreign key to an account is written as the pair         *)
(* <<user_id, device_id>> of the account row, a foreign key to a device    *)
(* key row as <<account, user_id, device_id>>.                             *)
(***************************************************************************)
EXTENDS Integers, Sequences, FiniteSets, TLC

\* ------------------------------------------------------------------ bounds
MaxUsers == 2        \* user ids 1..MaxUsers
MaxDeviceIds == 2    \* own device ids 1..MaxDeviceIds
MaxPeers == 2        \* peer devices 1..MaxPeers
MaxSteps == 2        \* writing calls of one run of the account-scoped store

UserIds == 1..MaxUsers
DeviceIds == 1..MaxDeviceIds
Peers == 1..MaxPeers
Secrets == {1, 2}     \* the secrets of accounts and sessions
SessionIds == {1, 2}  \* session ids

\* Python's None, and the AssertionError of a failed assert.
None == [none |-> TRUE]
AssertionError == [raised |-> "AssertionError"]

\* ------------------------------------------------------- external contracts
\* The secret codec: pickle(key) and from_pickle(blob, key).
Pickle(secret) == <<"pickle", secret>>
FromPickle(blob) == blob[2]

\* TrustState of nio.store.models.
TrustStates == {"unset", "verified", "blacklisted", "ignored"}

\* Key.from_olmdevice: the key a DefaultStore key file holds for a device.
Key_from_olmdevice(device) == <<device.user_id, device.id, device.keys["ed25519"]>>

\* KeyStore.add / KeyStore.remove / key in KeyStore of the file-backed key set.
KeyStore_add(entries, key) ==
    [entries |-> entries \cup {key}, ret |-> key \notin entries]

KeyStore_remove(entries, key) ==
    [entries |-> entries \ {key}, ret |-> key \in entries]

KeyStore_contains(entries, key) == key \in entries

\* ------------------------------------------------------------------ schema
\* The table a model class is stored in.  LegacyAccounts and Accounts share
\* the table "accounts" (the legacy detection of __attrs_post_init__ looks
\* for it); every other model has a table of its own.
TableName(model) ==
    IF model \in {"LegacyAccounts", "Accounts"} THEN "accounts"
    ELSE IF model = "StoreVersion" THEN "storeversion"
    ELSE model

\* Tables whose row order is read: a sequence of rows.
SeqTables == {"ForwardedChains", "LegacyForwardedChains", "storeversion",
              "EncryptedRooms"}
EmptyTable(t) == IF t \in SeqTables THEN <<>> ELSE {}

LegacyMatrixStore_models ==
    <<"LegacyAccounts", "LegacyOlmSessions", "LegacyMegolmInboundSessions",
      "LegacyForwardedChains", "LegacyDeviceKeys", "LegacyEncryptedRooms",
      "LegacyOutgoingKeyRequests">>

MatrixStore_models ==
    <<"Accounts", "OlmSessions", "MegolmInboundSessions", "ForwardedChains",
      "DeviceKeys", "EncryptedRooms", "OutgoingKeyRequests", "StoreVersion",
      "Keys">>

SqliteStore_models == MatrixStore_models \o <<"DeviceTrustState">>

store_version == 2

Range(s) == {s[i] : i \in DOMAIN s}

\* database.table_exists(name)
table_exists(d, t) == t \in DOMAIN d

\* database.create_tables(models): CREATE TABLE IF NOT EXISTS for each model.
create_tables(d, models) ==
    LET names == {TableName(m) : m \in Range(models)}
    IN [t \in DOMAIN d \cup names |->
            IF t \in DOMAIN d THEN d[t] ELSE EmptyTable(t)]

\* database.drop_tables(models, safe=True): DROP TABLE IF EXISTS for each.
drop_tables(d, models) ==
    LET names == {TableName(m) : m \in Range(models)}
    IN [t \in DOMAIN d \ names |-> d[t]]

\* The unique keys of the rows (nio.store.models).
AccountsKey(r) == <<r.user_id, r.device_id>>
DeviceKeysKey(r) == <<r.account, r.user_id, r.device_id>>

\* The unique key of the rows of a model.
KeyOf(model, r) ==
    CASE model \in {"Accounts", "LegacyAccounts"} -> AccountsKey(r)
      [] model \in {"OlmSessions", "MegolmInboundSessions", "LegacyOlmSessions",
                    "LegacyMegolmInboundSessions"} -> r.session_id
      [] model = "DeviceKeys" -> DeviceKeysKey(r)
      [] model = "Keys" -> <<r.device, r.key_type>>
      [] model = "DeviceTrustState" -> r.device
      [] model = "EncryptedRooms" -> <<r.room_id, r.account>>
      [] model = "OutgoingKeyRequests" -> <<r.request_id, r.account>>
      [] model = "ForwardedChains" -> <<r.sender_key, r.session>>
      [] model = "LegacyDeviceKeys" -> <<r.device, r.user_device_id, r.user_id>>
      [] model = "LegacyForwardedChains" -> <<r.curve_key, r.session>>
      [] model = "LegacyOutgoingKeyRequests" -> <<r.request_id, r.device>>

\* INSERT ... ON CONFLICT IGNORE into a set of rows.
InsertIgnore(rows, new, model) ==
    IF \E r \in rows : KeyOf(model, r) = KeyOf(model, new) THEN rows ELSE rows \cup {new}

\* INSERT OR REPLACE into a set of rows.
Replace(rows, new, model) ==
    {r \in rows : KeyOf(model, r) # KeyOf(model, new)} \cup {new}

\* INSERT OR REPLACE into a table read back in row order: the conflicting row
\* is deleted and the new one gets the highest row id.
SelectSeqNot(s, new, model) ==
    LET F[i \in 0..Len(s)] ==
            IF i = 0 THEN <<>>
            ELSE IF KeyOf(model, s[i]) = KeyOf(model, new) THEN F[i - 1]
            ELSE Append(F[i - 1], s[i])
    IN F[Len(s)]

ReplaceSeq(s, new, model) == Append(SelectSeqNot(s, new, model), new)

\* A finite set as a sequence, in a fixed order (the order a dict is walked).
RECURSIVE SetToSeq(_)
SetToSeq(S) ==
    IF S = {} THEN <<>>
    ELSE LET x == CHOOSE y \in S : TRUE
         IN <<x>> \o SetToSeq(S \ {x})

\* The numbers of S within lo..hi as a sequence, in ascending order; the
\* range is halved so that long lists stay within shallow nesting.
RECURSIVE NatsToSeq(_, _, _)
NatsToSeq(S, lo, hi) ==
    IF S = {} THEN <<>>
    ELSE IF lo = hi THEN <<lo>>
    ELSE LET mid == (lo + hi) \div 2
         IN NatsToSeq({x \in S : x <= mid}, lo, mid)
              \o NatsToSeq({x \in S : x > mid}, mid + 1, hi)

\* The largest number of a set of naturals (0 for the empty set).
MaxOf(S) == IF S = {} THEN 0 ELSE CHOOSE m \in S : \A x \in S : x <= m

\* ------------------------------------------------------------ MatrixStore
\* The values the store is handed and hands back:
\*   OlmAccount          [secret, shared]
\*   Session             [id, state, creation_time, use_time]
\*   InboundGroupSession [id, state, sender_key, ed25519, room_id,
\*                        forwarding_chain]
\*   OlmDevice           [user_id, id, keys, display_name, deleted]
\*   OutgoingKeyRequest  [request_id, session_id, room_id, algorithm]
\* A session's id is part of the pickled session.

\* MatrixStore._get_account
_get_account(d, user_id, device_id) ==
    LET rows == {r \in d["accounts"] :
                    r.user_id = user_id /\ r.device_id = device_id}
    IN IF rows = {} THEN None ELSE CHOOSE r \in rows : TRUE

\* MatrixStore.load_account
load_account(d, user_id, device_id) ==
    LET account == _get_account(d, user_id, device_id)
    IN IF account = None THEN None
       ELSE [secret |-> FromPickle(account.account), shared |-> account.shared]

\* save_account without the update that follows the insert
Mutant_save_account_insert_only(d, user_id, device_id, account) ==
    LET new == [user_id |-> user_id, device_id |-> device_id,
                shared |-> account.shared, account |-> Pickle(account.secret)]
    IN [d EXCEPT !["accounts"] = InsertIgnore(@, new, "Accounts")]

\* MatrixStore.save_account
save_account(d, user_id, device_id, account) ==
    LET new == [user_id |-> user_id, device_id |-> device_id,
                shared |-> account.shared, account |-> Pickle(account.secret)]
        inserted == InsertIgnore(d["accounts"], new, "Accounts")
        updated == {IF r.user_id = user_id /\ r.device_id = device_id
                    THEN [r EXCEPT !.account = Pickle(account.secret),
                                   !.shared = account.shared]
                    ELSE r : r \in inserted}
    IN [d EXCEPT !["accounts"] = updated]

\* Session.from_pickle(pickle, creation_time, passphrase): no use_time is
\* passed, and the session's use time starts as its creation time.
Session_from_pickle(pickle, creation_time) ==
    [id |-> FromPickle(pickle).id, state |-> FromPickle(pickle).state,
     creation_time |-> creation_time, use_time |-> creation_time]

Session_pickle(session) == Pickle([id |-> session.id, state |-> session.state])

\* load_sessions reading every session row, whatever its account
Mutant_load_sessions_unscoped(d, user_id, device_id) ==
    {[sender_key |-> s.sender_key,
      session |-> Session_from_pickle(s.session, s.creation_time)] :
        s \in d["OlmSessions"]}

\* MatrixStore.load_sessions: the SessionStore as a set of
\* [sender_key, session].
load_sessions(d, user_id, device_id) ==
    LET account == _get_account(d, user_id, device_id)
    IN IF account = None THEN {}
       ELSE {[sender_key |-> s.sender_key,
              session |-> Session_from_pickle(s.session, s.creation_time)] :
                s \in {r \in d["OlmSessions"] : r.account = AccountsKey(account)}}

\* save_session inserting with on_conflict_ignore instead of replacing
Mutant_save_session_insert_only(d, user_id, device_id, sender_key, session) ==
    LET account == _get_account(d, user_id, device_id)
    IN IF account = None THEN AssertionError
       ELSE [d EXCEPT !["OlmSessions"] =
                InsertIgnore(@, [account |-> AccountsKey(account),
                                 sender_key |-> sender_key,
                                 session |-> Session_pickle(session),
                                 session_id |-> session.id,
                                 creation_time |-> session.creation_time,
                                 last_usage_date |-> session.use_time],
                             "OlmSessions")]

\* save_session without its assert account
Mutant_save_session_unasserted(d, user_id, device_id, sender_key, session) ==
    [d EXCEPT !["OlmSessions"] =
        Replace(@, [account |-> <<user_id, device_id>>,
                    sender_key |-> sender_key,
                    session |-> Session_pickle(session),
                    session_id |-> session.id,
                    creation_time |-> session.creation_time,
                    last_usage_date |-> session.use_time],
                "OlmSessions")]

\* MatrixStore.save_session
save_session(d, user_id, device_id, sender_key, session) ==
    LET account == _get_account(d, user_id, device_id)
    IN IF account = None THEN AssertionError
       ELSE [d EXCEPT !["OlmSessions"] =
                Replace(@, [account |-> AccountsKey(account),
                            sender_key |-> sender_key,
                            session |-> Session_pickle(session),
                            session_id |-> session.id,
                            creation_time |-> session.creation_time,
                            last_usage_date |-> session.use_time],
                        "OlmSessions")]

\* [chain.sender_key for chain in s.forwarded_chains]
forwarded_chains(d, session_id) ==
    LET rows == d["ForwardedChains"]
        F[i \in 0..Len(rows)] ==
            IF i = 0 THEN <<>>
            ELSE IF rows[i].session = session_id
                 THEN Append(F[i - 1], rows[i].sender_key)
                 ELSE F[i - 1]
    IN F[Len(rows)]

\* MatrixStore.load_inbound_group_sessions: the GroupSessionStore as a set of
\* sessions.
load_inbound_group_sessions(d, user_id, device_id) ==
    LET account == _get_account(d, user_id, device_id)
    IN IF account = None THEN {}
       ELSE {[id |-> FromPickle(s.session).id,
              state |-> FromPickle(s.session).state,
              ed25519 |-> s.fp_key, sender_key |-> s.sender_key,
              room_id |-> s.room_id,
              forwarding_chain |-> forwarded_chains(d, s.session_id)] :
                s \in {r \in d["MegolmInboundSessions"] :
                          r.account = AccountsKey(account)}}

\* The loop inserting the chain rows instead of replacing them
RECURSIVE Mutant_insert_chains(_, _, _)
Mutant_insert_chains(rows, chain, session_id) ==
    IF chain = <<>> THEN rows
    ELSE Mutant_insert_chains(
            Append(rows, [sender_key |-> Head(chain), session |-> session_id]),
            Tail(chain), session_id)

\* The loop of save_inbound_group_session over session.forwarding_chain.
RECURSIVE replace_chains(_, _, _)
replace_chains(rows, chain, session_id) ==
    IF chain = <<>> THEN rows
    ELSE replace_chains(
            ReplaceSeq(rows, [sender_key |-> Head(chain), session |-> session_id],
                       "ForwardedChains"),
            Tail(chain), session_id)

\* MatrixStore.save_inbound_group_session
save_inbound_group_session(d, user_id, device_id, session) ==
    LET account == _get_account(d, user_id, device_id)
        blob == Pickle([id |-> session.id, state |-> session.state])
        new == [sender_key |-> session.sender_key,
                account |-> IF account = None THEN None ELSE AccountsKey(account),
                fp_key |-> session.ed25519, room_id |-> session.room_id,
                session |-> blob, session_id |-> session.id]
        inserted == InsertIgnore(d["MegolmInboundSessions"], new,
                                 "MegolmInboundSessions")
        updated == {IF r.session_id = session.id
                    THEN [r EXCEPT !.session = blob] ELSE r : r \in inserted}
    IN IF account = None THEN AssertionError
       ELSE [d EXCEPT !["MegolmInboundSessions"] = updated,
                      !["ForwardedChains"] =
                          replace_chains(@, session.forwarding_chain, session.id)]

\* {k.key_type: k.key for k in d.keys}
device_key_dict(d, device) ==
    LET rows == {k \in d["Keys"] : k.device = device}
    IN [kt \in {k.key_type : k \in rows} |->
            (CHOOSE k \in rows : k.key_type = kt).key]

\* MatrixStore.load_device_keys: the DeviceStore as a set of OlmDevice.
load_device_keys(d, user_id, device_id) ==
    LET account == _get_account(d, user_id, device_id)
    IN IF account = None THEN {}
       ELSE {[user_id |-> r.user_id, id |-> r.device_id,
              keys |-> device_key_dict(d, DeviceKeysKey(r)),
              display_name |-> r.display_name, deleted |-> r.deleted] :
                r \in {r \in d["DeviceKeys"] : r.account = AccountsKey(account)}}

\* The rows save_device_keys builds: device_keys maps <<user_id, device_id>>
\* to an OlmDevice, walked in the order of the dict.
device_key_items(device_keys) ==
    LET base == 1 + MaxOf({k[2] : k \in DOMAIN device_keys})
        ranks == {k[1] * base + k[2] : k \in DOMAIN device_keys}
        order == NatsToSeq(ranks, 0, MaxOf(ranks))
    IN [i \in DOMAIN order |-> <<order[i] \div base, order[i] % base>>]

device_key_chunk == 100

\* The insert of the first chunk alone
Mutant_insert_first_chunk(rows, data, idx) ==
    LET last == IF device_key_chunk < Len(data)
                THEN device_key_chunk ELSE Len(data)
        conflict(new) == \E r \in rows : DeviceKeysKey(r) = DeviceKeysKey(new)
    IN rows \cup {new \in {data[i] : i \in 1..last} : ~conflict(new)}

\* DeviceKeys.insert_many(data).on_conflict_ignore() for rows[idx:idx + 100],
\* idx in range(0, len(rows), 100).
RECURSIVE insert_device_chunks(_, _, _)
insert_device_chunks(rows, data, idx) ==
    IF idx > Len(data) THEN rows
    ELSE LET last == IF idx + device_key_chunk - 1 < Len(data)
                     THEN idx + device_key_chunk - 1 ELSE Len(data)
             chunk == {data[i] : i \in idx..last}
             conflict(new) == \E r \in rows : DeviceKeysKey(r) = DeviceKeysKey(new)
         IN insert_device_chunks(rows \cup {new \in chunk : ~conflict(new)},
                                 data, idx + device_key_chunk)

\* The second pass of save_device_keys for one device: d.deleted is set and
\* the row saved, then every key of the device is replaced.
RECURSIVE replace_keys(_, _, _, _)
replace_keys(rows, device, keys, types) ==
    IF types = <<>> THEN rows
    ELSE replace_keys(
            Replace(rows, [key_type |-> Head(types), key |-> keys[Head(types)],
                           device |-> device], "Keys"),
            device, keys, Tail(types))

\* The second pass writing the device row anew, which takes the trust row of
\* the old one with it
Mutant_update_device_replaces_row(d, account, item, device) ==
    LET ref == <<account, item[1], item[2]>>
    IN [d EXCEPT
          !["DeviceKeys"] = {IF DeviceKeysKey(r) = ref
                             THEN [r EXCEPT !.deleted = device.deleted]
                             ELSE r : r \in @},
          !["DeviceTrustState"] = {t \in @ : t.device # ref},
          !["Keys"] = replace_keys(@, ref, device.keys,
                                   SetToSeq(DOMAIN device.keys))]

update_device(d, account, item, device) ==
    LET ref == <<account, item[1], item[2]>>
    IN [d EXCEPT
          !["DeviceKeys"] = {IF DeviceKeysKey(r) = ref
                             THEN [r EXCEPT !.deleted = device.deleted]
                             ELSE r : r \in @},
          !["Keys"] = replace_keys(@, ref, device.keys,
                                   SetToSeq(DOMAIN device.keys))]

\* The second pass over the devices in their order: the first half of the
\* list, then the rest on what the first half left.
RECURSIVE update_devices(_, _, _, _)
update_devices(d, account, device_keys, items) ==
    IF items = <<>> THEN d
    ELSE IF Len(items) = 1
    THEN update_device(d, account, items[1], device_keys[items[1]])
    ELSE LET mid == Len(items) \div 2
             first == update_devices(d, account, device_keys,
                                     SubSeq(items, 1, mid))
             rest == SubSeq(items, mid + 1, Len(items))
         IN IF /\ first["DeviceKeys"] = d["DeviceKeys"]
               /\ first["Keys"] = d["Keys"]
            THEN update_devices(d, account, device_keys, rest)
            ELSE update_devices(first, account, device_keys, rest)

\* MatrixStore.save_device_keys (atomic: a failed call writes nothing).
save_device_keys(d, user_id, device_id, device_keys) ==
    LET account == _get_account(d, user_id, device_id)
        items == device_key_items(device_keys)
        data == [i \in DOMAIN items |->
                    [account |-> AccountsKey(account),
                     user_id |-> items[i][1], device_id |-> items[i][2],
                     display_name |-> device_keys[items[i]].display_name,
                     deleted |-> device_keys[items[i]].deleted]]
    IN IF account = None THEN AssertionError
       ELSE IF items = <<>> THEN d
       ELSE update_devices(
               [d EXCEPT !["DeviceKeys"] = insert_device_chunks(@, data, 1)],
               AccountsKey(account), device_keys, items)

\* What save_device_keys has written inside its transaction once `chunks`
\* chunks are inserted and the second pass has handled `devices` devices.
device_keys_written(d, user_id, device_id, device_keys, chunks, devices) ==
    LET account == AccountsKey(_get_account(d, user_id, device_id))
        items == device_key_items(device_keys)
        data == [i \in DOMAIN items |->
                    [account |-> account,
                     user_id |-> items[i][1], device_id |-> items[i][2],
                     display_name |-> device_keys[items[i]].display_name,
                     deleted |-> device_keys[items[i]].deleted]]
        done == IF chunks * device_key_chunk < Len(data)
                THEN chunks * device_key_chunk ELSE Len(data)
    IN update_devices(
          [d EXCEPT !["DeviceKeys"] =
              insert_device_chunks(@, SubSeq(data, 1, done), 1)],
          account, device_keys, SubSeq(items, 1, devices))

\* MatrixStore.load_encrypted_rooms
load_encrypted_rooms(d, user_id, device_id) ==
    LET account == _get_account(d, user_id, device_id)
    IN IF account = None THEN {}
       ELSE {r.room_id : r \in {r \in Range(d["EncryptedRooms"]) :
                                   r.account = AccountsKey(account)}}

\* MatrixStore.load_outgoing_key_requests: the dict as a set of requests.
load_outgoing_key_requests(d, user_id, device_id) ==
    LET account == _get_account(d, user_id, device_id)
    IN IF account = None THEN {}
       ELSE {[request_id |-> r.request_id, session_id |-> r.session_id,
              room_id |-> r.room_id, algorithm |-> r.algorithm] :
                r \in {r \in d["OutgoingKeyRequests"] :
                          r.account = AccountsKey(account)}}

\* MatrixStore.add_outgoing_key_request
add_outgoing_key_request(d, user_id, device_id, key_request) ==
    LET account == _get_account(d, user_id, device_id)
    IN IF account = None THEN AssertionError
       ELSE [d EXCEPT !["OutgoingKeyRequests"] =
                InsertIgnore(@, [request_id |-> key_request.request_id,
                                 session_id |-> key_request.session_id,
                                 room_id |-> key_request.room_id,
                                 algorithm |-> key_request.algorithm,
                                 account |-> AccountsKey(account)],
                             "OutgoingKeyRequests")]

\* MatrixStore.remove_outgoing_key_request
remove_outgoing_key_request(d, user_id, device_id, key_request) ==
    LET account == _get_account(d, user_id, device_id)
    IN IF account = None THEN AssertionError
       ELSE [d EXCEPT !["OutgoingKeyRequests"] =
                {r \in @ : ~(r.request_id = key_request.request_id
                             /\ r.account = AccountsKey(account))}]

room_chunk == 400

\* INSERT ... ON CONFLICT IGNORE of a list of rows into a table kept in row
\* order: the first half of the list, then the rest on what it left.
RECURSIVE InsertManyIgnoreSeq(_, _, _)
InsertManyIgnoreSeq(rows, data, model) ==
    IF data = <<>> THEN rows
    ELSE IF Len(data) = 1
    THEN IF \E i \in DOMAIN rows :
                KeyOf(model, rows[i]) = KeyOf(model, data[1])
         THEN rows ELSE Append(rows, data[1])
    ELSE LET mid == Len(data) \div 2
             first == InsertManyIgnoreSeq(rows, SubSeq(data, 1, mid), model)
             rest == SubSeq(data, mid + 1, Len(data))
         IN IF first = rows THEN InsertManyIgnoreSeq(rows, rest, model)
            ELSE InsertManyIgnoreSeq(first, rest, model)

\* The chunks taken one row too far apart
RECURSIVE Mutant_insert_room_chunks_apart(_, _, _)
Mutant_insert_room_chunks_apart(rows, data, idx) ==
    IF idx > Len(data) THEN rows
    ELSE LET last == IF idx + room_chunk - 1 < Len(data)
                     THEN idx + room_chunk - 1 ELSE Len(data)
         IN Mutant_insert_room_chunks_apart(
                InsertManyIgnoreSeq(rows, SubSeq(data, idx, last),
                                    "EncryptedRooms"),
                data, idx + room_chunk + 1)

\* EncryptedRooms.insert_many(rows).on_conflict_ignore() for data[idx:idx + 400]
RECURSIVE insert_room_chunks(_, _, _)
insert_room_chunks(rows, data, idx) ==
    IF idx > Len(data) THEN rows
    ELSE LET last == IF idx + room_chunk - 1 < Len(data)
                     THEN idx + room_chunk - 1 ELSE Len(data)
         IN insert_room_chunks(
                InsertManyIgnoreSeq(rows, SubSeq(data, idx, last), 
                                    "EncryptedRooms"),
                data, idx + room_chunk)

\* MatrixStore.save_encrypted_rooms (atomic)
save_encrypted_rooms(d, user_id, device_id, rooms) ==
    LET account == _get_account(d, user_id, device_id)
        ids == NatsToSeq(rooms, 0, MaxOf(rooms))
        data == [i \in DOMAIN ids |->
                    [room_id |-> ids[i], account |-> AccountsKey(account)]]
    IN IF account = None THEN AssertionError
       ELSE [d EXCEPT !["EncryptedRooms"] = insert_room_chunks(@, data, 1)]

\* What save_encrypted_rooms has written inside its transaction once
\* `chunks` chunks are inserted.
rooms_written(d, user_id, device_id, rooms, chunks) ==
    LET account == AccountsKey(_get_account(d, user_id, device_id))
        ids == NatsToSeq(rooms, 0, MaxOf(rooms))
        data == [i \in DOMAIN ids |-> [room_id |-> ids[i], account |-> account]]
        done == IF chunks * room_chunk < Len(data)
                THEN chunks * room_chunk ELSE Len(data)
    IN [d EXCEPT !["EncryptedRooms"] =
            insert_room_chunks(@, SubSeq(data, 1, done), 1)]

\* The wrapper without the transaction: what was written stays
Mutant_use_database_unatomic(d, r) == r.db

\* use_database_atomic: with self.database.atomic() the writes of the call
\* are committed when it returns and rolled back when it raises.
use_database_atomic(d, r) == IF r.raised THEN d ELSE r.db

\* MatrixStore.delete_encrypted_room: the row is looked up by room id alone;
\* get_or_none takes the first row of the table that matches.
delete_encrypted_room(d, room) ==
    LET rows == d["EncryptedRooms"]
        found == {i \in DOMAIN rows : rows[i].room_id = room}
        first == CHOOSE i \in found : \A j \in found : i <= j
    IN IF found = {} THEN d
       ELSE [d EXCEPT !["EncryptedRooms"] =
                SubSeq(rows, 1, first - 1) \o SubSeq(rows, first + 1, Len(rows))]

\* ------------------------------------------------------------ DefaultStore
\* The three key files of a DefaultStore: [trust_db, blacklist_db, ignore_db],
\* each the set of keys the file holds.  A mutator gives the files after the
\* call and the boolean it returns.

\* DefaultStore.blacklist_device
Default_blacklist_device(ks, device) ==
    LET key == Key_from_olmdevice(device)
        t == KeyStore_remove(ks.trust_db, key)
        i == KeyStore_remove(ks.ignore_db, key)
        b == KeyStore_add(ks.blacklist_db, key)
    IN [ks |-> [trust_db |-> t.entries, ignore_db |-> i.entries,
                blacklist_db |-> b.entries],
        ret |-> b.ret]

\* DefaultStore.unblacklist_device
Default_unblacklist_device(ks, device) ==
    LET b == KeyStore_remove(ks.blacklist_db, Key_from_olmdevice(device))
    IN [ks |-> [ks EXCEPT !.blacklist_db = b.entries], ret |-> b.ret]

\* verify_device without self.blacklist_db.remove(key)
Mutant_verify_keeps_blacklist(ks, device) ==
    LET key == Key_from_olmdevice(device)
        i == KeyStore_remove(ks.ignore_db, key)
        t == KeyStore_add(ks.trust_db, key)
    IN [ks |-> [trust_db |-> t.entries, ignore_db |-> i.entries,
                blacklist_db |-> ks.blacklist_db],
        ret |-> t.ret]

\* DefaultStore.verify_device
Default_verify_device(ks, device) ==
    LET key == Key_from_olmdevice(device)
        b == KeyStore_remove(ks.blacklist_db, key)
        i == KeyStore_remove(ks.ignore_db, key)
        t == KeyStore_add(ks.trust_db, key)
    IN [ks |-> [trust_db |-> t.entries, ignore_db |-> i.entries,
                blacklist_db |-> b.entries],
        ret |-> t.ret]

\* DefaultStore.is_device_verified
Default_is_device_verified(ks, device) ==
    KeyStore_contains(ks.trust_db, Key_from_olmdevice(device))

\* DefaultStore.is_device_blacklisted
Default_is_device_blacklisted(ks, device) ==
    KeyStore_contains(ks.blacklist_db, Key_from_olmdevice(device))

\* DefaultStore.unverify_device
Default_unverify_device(ks, device) ==
    LET t == KeyStore_remove(ks.trust_db, Key_from_olmdevice(device))
    IN [ks |-> [ks EXCEPT !.trust_db = t.entries], ret |-> t.ret]

\* ignore_device without self.trust_db.remove(key)
Mutant_ignore_keeps_trust(ks, device) ==
    LET key == Key_from_olmdevice(device)
        b == KeyStore_remove(ks.blacklist_db, key)
        i == KeyStore_add(ks.ignore_db, key)
    IN [ks |-> [trust_db |-> ks.trust_db, ignore_db |-> i.entries,
                blacklist_db |-> b.entries],
        ret |-> i.ret]

\* DefaultStore.ignore_device
Default_ignore_device(ks, device) ==
    LET key == Key_from_olmdevice(device)
        b == KeyStore_remove(ks.blacklist_db, key)
        t == KeyStore_remove(ks.trust_db, key)
        i == KeyStore_add(ks.ignore_db, key)
    IN [ks |-> [trust_db |-> t.entries, ignore_db |-> i.entries,
                blacklist_db |-> b.entries],
        ret |-> i.ret]

\* DefaultStore.unignore_device
Default_unignore_device(ks, device) ==
    LET i == KeyStore_remove(ks.ignore_db, Key_from_olmdevice(device))
    IN [ks |-> [ks EXCEPT !.ignore_db = i.entries], ret |-> i.ret]

\* DefaultStore.is_device_ignored
Default_is_device_ignored(ks, device) ==
    KeyStore_contains(ks.ignore_db, Key_from_olmdevice(device))

\* ------------------------------------------------------------- SqliteStore
\* A mutator gives [db, ret, raised]: the database after the call, the
\* boolean returned, and whether the call raised (assert d) instead.

\* SqliteStore._get_device
_get_device(d, user_id, device_id, device) ==
    LET acc == _get_account(d, user_id, device_id)
        rows == {r \in d["DeviceKeys"] :
                    /\ r.user_id = device.user_id
                    /\ r.device_id = device.id
                    /\ r.account = AccountsKey(acc)}
    IN IF acc = None THEN None
       ELSE IF rows = {} THEN None ELSE CHOOSE r \in rows : TRUE

\* d.trust_state: the states of the trust rows of a device key row, as a list
\* (trust_state[0] of an empty list is the IndexError).
trust_state(d, row) ==
    LET rows == {t \in d["DeviceTrustState"] : t.device = DeviceKeysKey(row)}
    IN IF rows = {} THEN <<>> ELSE <<(CHOOSE t \in rows : TRUE).state>>

\* DeviceTrustState.replace(device=d, state=state).execute()
replace_trust_state(d, row, state) ==
    [d EXCEPT !["DeviceTrustState"] =
        Replace(@, [device |-> DeviceKeysKey(row), state |-> state], 
                "DeviceTrustState")]

\* SqliteStore.is_device_verified
Sqlite_is_device_verified(d, user_id, device_id, device) ==
    LET row == _get_device(d, user_id, device_id, device)
    IN IF row = None THEN FALSE
       ELSE IF trust_state(d, row) = <<>> THEN FALSE
       ELSE trust_state(d, row)[1] = "verified"

\* SqliteStore.is_device_blacklisted
Sqlite_is_device_blacklisted(d, user_id, device_id, device) ==
    LET row == _get_device(d, user_id, device_id, device)
    IN IF row = None THEN FALSE
       ELSE IF trust_state(d, row) = <<>> THEN FALSE
       ELSE trust_state(d, row)[1] = "blacklisted"

\* SqliteStore.is_device_ignored
Sqlite_is_device_ignored(d, user_id, device_id, device) ==
    LET row == _get_device(d, user_id, device_id, device)
    IN IF row = None THEN FALSE
       ELSE IF trust_state(d, row) = <<>> THEN FALSE
       ELSE trust_state(d, row)[1] = "ignored"

\* SqliteStore.verify_device
Sqlite_verify_device(d, user_id, device_id, device) ==
    LET row == _get_device(d, user_id, device_id, device)
    IN IF Sqlite_is_device_verified(d, user_id, device_id, device)
       THEN [db |-> d, ret |-> FALSE, raised |-> FALSE]
       ELSE IF row = None THEN [db |-> d, ret |-> FALSE, raised |-> TRUE]
       ELSE [db |-> replace_trust_state(d, row, "verified"),
             ret |-> TRUE, raised |-> FALSE]

\* unverify_device without its first check
Mutant_unverify_unchecked(d, user_id, device_id, device) ==
    LET row == _get_device(d, user_id, device_id, device)
    IN IF row = None THEN [db |-> d, ret |-> FALSE, raised |-> TRUE]
       ELSE [db |-> replace_trust_state(d, row, "unset"),
             ret |-> TRUE, raised |-> FALSE]

\* SqliteStore.unverify_device
Sqlite_unverify_device(d, user_id, device_id, device) ==
    LET row == _get_device(d, user_id, device_id, device)
    IN IF ~Sqlite_is_device_verified(d, user_id, device_id, device)
       THEN [db |-> d, ret |-> FALSE, raised |-> FALSE]
       ELSE IF row = None THEN [db |-> d, ret |-> FALSE, raised |-> TRUE]
       ELSE [db |-> replace_trust_state(d, row, "unset"),
             ret |-> TRUE, raised |-> FALSE]

\* SqliteStore.blacklist_device
Sqlite_blacklist_device(d, user_id, device_id, device) ==
    LET row == _get_device(d, user_id, device_id, device)
    IN IF Sqlite_is_device_blacklisted(d, user_id, device_id, device)
       THEN [db |-> d, ret |-> FALSE, raised |-> FALSE]
       ELSE IF row = None THEN [db |-> d, ret |-> FALSE, raised |-> TRUE]
       ELSE [db |-> replace_trust_state(d, row, "blacklisted"),
             ret |-> TRUE, raised |-> FALSE]

\* unblacklist_device without its first check
Mutant_unblacklist_unchecked(d, user_id, device_id, device) ==
    LET row == _get_device(d, user_id, device_id, device)
    IN IF row = None THEN [db |-> d, ret |-> FALSE, raised |-> TRUE]
       ELSE [db |-> replace_trust_state(d, row, "unset"),
             ret |-> TRUE, raised |-> FALSE]

\* SqliteStore.unblacklist_device
Sqlite_unblacklist_device(d, user_id, device_id, device) ==
    LET row == _get_device(d, user_id, device_id, device)
    IN IF ~Sqlite_is_device_blacklisted(d, user_id, device_id, device)
       THEN [db |-> d, ret |-> FALSE, raised |-> FALSE]
       ELSE IF row = None THEN [db |-> d, ret |-> FALSE, raised |-> TRUE]
       ELSE [db |-> replace_trust_state(d, row, "unset"),
             ret |-> TRUE, raised |-> FALSE]

\* ignore_device writing TrustState.blacklisted
Mutant_ignore_writes_blacklisted(d, user_id, device_id, device) ==
    LET row == _get_device(d, user_id, device_id, device)
    IN IF Sqlite_is_device_ignored(d, user_id, device_id, device)
       THEN [db |-> d, ret |-> FALSE, raised |-> FALSE]
       ELSE IF row = None THEN [db |-> d, ret |-> FALSE, raised |-> TRUE]
       ELSE [db |-> replace_trust_state(d, row, "blacklisted"),
             ret |-> TRUE, raised |-> FALSE]

\* SqliteStore.ignore_device
Sqlite_ignore_device(d, user_id, device_id, device) ==
    LET row == _get_device(d, user_id, device_id, device)
    IN IF Sqlite_is_device_ignored(d, user_id, device_id, device)
       THEN [db |-> d, ret |-> FALSE, raised |-> FALSE]
       ELSE IF row = None THEN [db |-> d, ret |-> FALSE, raised |-> TRUE]
       ELSE [db |-> replace_trust_state(d, row, "ignored"),
             ret |-> TRUE, raised |-> FALSE]

\* SqliteStore.unignore_device
Sqlite_unignore_device(d, user_id, device_id, device) ==
    LET row == _get_device(d, user_id, device_id, device)
    IN IF ~Sqlite_is_device_ignored(d, user_id, device_id, device)
       THEN [db |-> d, ret |-> FALSE, raised |-> FALSE]
       ELSE IF row = None THEN [db |-> d, ret |-> FALSE, raised |-> TRUE]
       ELSE [db |-> replace_trust_state(d, row, "unset"),
             ret |-> TRUE, raised |-> FALSE]

\* ------------------------------------------------------- LegacyMatrixStore
\* The legacy rows name their account by its device id alone (device=
\* self.device_id); the pragma foreign_keys=1 makes a write for a device id
\* without an account row fail.
IntegrityError == [raised |-> "IntegrityError"]

\* A legacy account row conflicts on its user id and on its device id.
legacy_account_conflict(rows, new) ==
    \E r \in rows : r.user_id = new.user_id \/ r.device_id = new.device_id


\* LegacyMatrixStore.__attrs_post_init__
Legacy_post_init(d) == create_tables(d, LegacyMatrixStore_models)

\* LegacyMatrixStore._get_account
Legacy_get_account(d, user_id, device_id) ==
    _get_account(d, user_id, device_id)

\* LegacyMatrixStore.load_account
Legacy_load_account(d, user_id, device_id) ==
    LET account == Legacy_get_account(d, user_id, device_id)
    IN IF account = None THEN None
       ELSE [secret |-> FromPickle(account.account), shared |-> account.shared]

\* LegacyMatrixStore.save_account
Legacy_save_account(d, user_id, device_id, account) ==
    LET new == [user_id |-> user_id, device_id |-> device_id,
                shared |-> account.shared, account |-> Pickle(account.secret)]
        inserted == IF legacy_account_conflict(d["accounts"], new)
                    THEN d["accounts"] ELSE d["accounts"] \cup {new}
        updated == {IF r.user_id = user_id /\ r.device_id = device_id
                    THEN [r EXCEPT !.account = Pickle(account.secret),
                                   !.shared = account.shared]
                    ELSE r : r \in inserted}
    IN [d EXCEPT !["accounts"] = updated]

\* .join(LegacyAccounts).where(LegacyAccounts.device_id == self.device_id)
legacy_joined(d, rows, device_id) ==
    {r \in rows : r.device = device_id
                  /\ \E a \in d["accounts"] : a.device_id = r.device}

\* LegacyMatrixStore.load_sessions
Legacy_load_sessions(d, device_id) ==
    {[sender_key |-> s.curve_key,
      session |-> Session_from_pickle(s.session, s.creation_time)] :
        s \in legacy_joined(d, d["LegacyOlmSessions"], device_id)}

\* LegacyMatrixStore.save_session
Legacy_save_session(d, device_id, curve_key, session) ==
    IF ~\E a \in d["accounts"] : a.device_id = device_id THEN IntegrityError
    ELSE [d EXCEPT !["LegacyOlmSessions"] =
            Replace(@, [device |-> device_id, curve_key |-> curve_key,
                        session |-> Session_pickle(session),
                        session_id |-> session.id,
                        creation_time |-> session.creation_time],
                    "LegacyOlmSessions")]

\* [chain.curve_key for chain in s.forwarded_chains]
legacy_forwarded_chains(d, session_id) ==
    LET rows == d["LegacyForwardedChains"]
        F[i \in 0..Len(rows)] ==
            IF i = 0 THEN <<>>
            ELSE IF rows[i].session = session_id
                 THEN Append(F[i - 1], rows[i].curve_key)
                 ELSE F[i - 1]
    IN F[Len(rows)]

\* LegacyMatrixStore.load_inbound_group_sessions
Legacy_load_inbound_group_sessions(d, device_id) ==
    {[id |-> FromPickle(s.session).id, state |-> FromPickle(s.session).state,
      ed25519 |-> s.ed_key, sender_key |-> s.curve_key, room_id |-> s.room_id,
      forwarding_chain |-> legacy_forwarded_chains(d, s.session_id)] :
        s \in legacy_joined(d, d["LegacyMegolmInboundSessions"], device_id)}

RECURSIVE legacy_replace_chains(_, _, _)
legacy_replace_chains(rows, chain, session_id) ==
    IF chain = <<>> THEN rows
    ELSE legacy_replace_chains(
            ReplaceSeq(rows, [curve_key |-> Head(chain), session |-> session_id],
                       "LegacyForwardedChains"),
            Tail(chain), session_id)

\* LegacyMatrixStore.save_inbound_group_session
Legacy_save_inbound_group_session(d, device_id, session) ==
    LET blob == Pickle([id |-> session.id, state |-> session.state])
        new == [curve_key |-> session.sender_key, device |-> device_id,
                ed_key |-> session.ed25519, room_id |-> session.room_id,
                session |-> blob, session_id |-> session.id]
        inserted == InsertIgnore(d["LegacyMegolmInboundSessions"], new,
                                 "LegacyMegolmInboundSessions")
        updated == {IF r.session_id = session.id
                    THEN [r EXCEPT !.session = blob] ELSE r : r \in inserted}
    IN IF ~\E a \in d["accounts"] : a.device_id = device_id THEN IntegrityError
       ELSE [d EXCEPT !["LegacyMegolmInboundSessions"] = updated,
                      !["LegacyForwardedChains"] =
                          legacy_replace_chains(@, session.forwarding_chain,
                                                session.id)]

\* LegacyMatrixStore.load_device_keys
Legacy_load_device_keys(d, device_id) ==
    {[user_id |-> r.user_id, id |-> r.user_device_id,
      keys |-> [kt \in {"ed25519", "curve25519"} |->
                    IF kt = "ed25519" THEN r.ed_key ELSE r.curve_key],
      display_name |-> "", deleted |-> r.deleted] :
        r \in legacy_joined(d, d["LegacyDeviceKeys"], device_id)}

\* LegacyDeviceKeys.replace_many(data) over the rows of device_keys
RECURSIVE legacy_replace_devices(_, _, _, _)
legacy_replace_devices(rows, device_id, device_keys, items) ==
    IF items = <<>> THEN rows
    ELSE LET device == device_keys[Head(items)]
         IN legacy_replace_devices(
                Replace(rows, [curve_key |-> device.keys["curve25519"],
                               deleted |-> device.deleted,
                               device |-> device_id,
                               ed_key |-> device.keys["ed25519"],
                               user_device_id |-> Head(items)[2],
                               user_id |-> Head(items)[1]],
                        "LegacyDeviceKeys"),
                device_id, device_keys, Tail(items))

\* LegacyMatrixStore.save_device_keys (atomic)
Legacy_save_device_keys(d, device_id, device_keys) ==
    IF DOMAIN device_keys = {} THEN d
    ELSE IF ~\E a \in d["accounts"] : a.device_id = device_id
    THEN IntegrityError
    ELSE [d EXCEPT !["LegacyDeviceKeys"] =
            legacy_replace_devices(@, device_id, device_keys,
                                   device_key_items(device_keys))]

\* LegacyMatrixStore.save_encrypted_rooms (atomic)
Legacy_save_encrypted_rooms(d, user_id, device_id, rooms) ==
    LET account == Legacy_get_account(d, user_id, device_id)
    IN IF account = None THEN AssertionError
       ELSE [d EXCEPT !["LegacyEncryptedRooms"] =
                @ \cup {[room_id |-> r, account |-> AccountsKey(account)] :
                            r \in rooms}]

\* LegacyMatrixStore.add_outgoing_key_request
Legacy_add_outgoing_key_request(d, user_id, device_id, key_request) ==
    LET account == Legacy_get_account(d, user_id, device_id)
    IN IF account = None THEN AssertionError
       ELSE [d EXCEPT !["LegacyOutgoingKeyRequests"] =
                InsertIgnore(@, [request_id |-> key_request.request_id,
                                 session_id |-> key_request.session_id,
                                 room_id |-> key_request.room_id,
                                 algorithm |-> key_request.algorithm,
                                 device |-> account.device_id],
                             "LegacyOutgoingKeyRequests")]

\* LegacyMatrixStore.load_encrypted_rooms
Legacy_load_encrypted_rooms(d, user_id, device_id) ==
    LET account == Legacy_get_account(d, user_id, device_id)
    IN IF account = None THEN {}
       ELSE {r.room_id : r \in {r \in d["LegacyEncryptedRooms"] :
                                   r.account = AccountsKey(account)}}

\* LegacyMatrixStore.load_outgoing_key_requests: the dict as a set of requests.
Legacy_load_outgoing_key_requests(d, user_id, device_id) ==
    LET account == Legacy_get_account(d, user_id, device_id)
    IN IF account = None THEN {}
       ELSE {[request_id |-> r.request_id, session_id |-> r.session_id,
              room_id |-> r.room_id, algorithm |-> r.algorithm] :
                r \in {r \in d["LegacyOutgoingKeyRequests"] :
                          r.device = account.device_id}}

\* ------------------------------------------------ opening and migrating
\* MatrixStore._get_store_version: [db, version]
_get_store_version(d) ==
    LET d1 == create_tables(d, <<"StoreVersion">>)
        d2 == IF d1["storeversion"] = <<>>
              THEN [d1 EXCEPT !["storeversion"] = <<[version |-> store_version]>>]
              ELSE d1
    IN [db |-> d2, version |-> d2["storeversion"][1].version]

\* MatrixStore._update_version
_update_version(d, new_version) ==
    LET d1 == IF d["storeversion"] = <<>>
              THEN [d EXCEPT !["storeversion"] = <<[version |-> new_version]>>]
              ELSE d
    IN [d1 EXCEPT !["storeversion"][1].version = new_version]

\* upgrate_to_v2 without its _update_version(2)
Mutant_upgrade_keeps_version(d) ==
    LET d1 == drop_tables(d, <<"DeviceTrustState", "DeviceKeys_v1">>)
    IN create_tables(d1, <<"DeviceKeys", "DeviceTrustState">>)

\* MatrixStore.upgrate_to_v2
upgrate_to_v2(d) ==
    LET d1 == drop_tables(d, <<"DeviceTrustState", "DeviceKeys_v1">>)
        d2 == create_tables(d1, <<"DeviceKeys", "DeviceTrustState">>)
    IN _update_version(d2, 2)

\* A call has raised: what it left is the AssertionError, no database.
Raised(r) == DOMAIN r = DOMAIN AssertionError

\* for curve_key, session_list in sessions.items(): ... self.save_session(...);
\* a save that raises ends the loop.
RECURSIVE migrate_sessions(_, _, _, _)
migrate_sessions(d, user, device, sessions) ==
    IF sessions = <<>> THEN d
    ELSE LET r == save_session(d, user, device, Head(sessions).sender_key,
                               Head(sessions).session)
         IN IF Raised(r) THEN r
            ELSE migrate_sessions(r, user, device, Tail(sessions))

\* for g_session in group_sessions: self.save_inbound_group_session(g_session)
RECURSIVE migrate_group_sessions(_, _, _, _)
migrate_group_sessions(d, user, device, group_sessions) ==
    IF group_sessions = <<>> THEN d
    ELSE LET r == save_inbound_group_session(d, user, device,
                                             Head(group_sessions))
         IN IF Raised(r) THEN r
            ELSE migrate_group_sessions(r, user, device, Tail(group_sessions))

\* The DeviceStore handed to save_device_keys: user id and device id to device.
device_store_items(devices) ==
    [k \in {<<dev.user_id, dev.id>> : dev \in devices} |->
        CHOOSE dev \in devices : <<dev.user_id, dev.id>> = k]

\* The log of a migration ends with a step that raised.
MigrationRaised(log) == log # <<>> /\ log[Len(log)].raised

\* A call of the second loop on the store [db, user_id, device_id, log], r
\* what the call left: the call is logged with the identity of the store and
\* whether it raised; after a call that raised nothing more is called.
migration_step(store, op, r) ==
    IF MigrationRaised(store.log) THEN store
    ELSE [store EXCEPT
            !.db = IF Raised(r) THEN @ ELSE r,
            !.log = Append(@, [op |-> op,
                               ident |-> <<store.user_id, store.device_id>>,
                               raised |-> Raised(r)])]

\* The second loop without its save_device_keys(device_keys)
Mutant_migrate_user_without_devices(store, user, device, data) ==
    LET a0 == [store EXCEPT !.user_id = user, !.device_id = device]
        a1 == migration_step(a0, "save_account",
                  save_account(store.db, user, device, data.account))
        a2 == migration_step(a1, "save_session",
                  migrate_sessions(a1.db, user, device,
                                   SetToSeq(data.sessions)))
    IN migration_step(a2, "save_inbound_group_session",
           migrate_group_sessions(a2.db, user, device,
                                  SetToSeq(data.group_sessions)))

\* The second loop calling save_device_keys before save_account
Mutant_migrate_user_devices_first(store, user, device, data) ==
    LET a0 == [store EXCEPT !.user_id = user, !.device_id = device]
        a1 == migration_step(a0, "save_device_keys",
                  save_device_keys(store.db, user, device,
                                   device_store_items(data.device_keys)))
    IN migration_step(a1, "save_account",
           save_account(a1.db, user, device, data.account))

\* One turn of the second loop of _update_from_legacy_db on the store
\* [db, user_id, device_id, log]: self.user_id and self.device_id are set,
\* then the account, the sessions, the group sessions and the device keys
\* are saved, each on what the call before it left.
migrate_user(store, user, device, data) ==
    LET a0 == [store EXCEPT !.user_id = user, !.device_id = device]
        a1 == migration_step(a0, "save_account",
                  save_account(store.db, user, device, data.account))
        a2 == migration_step(a1, "save_session",
                  migrate_sessions(a1.db, user, device,
                                   SetToSeq(data.sessions)))
        a3 == migration_step(a2, "save_inbound_group_session",
                  migrate_group_sessions(a2.db, user, device,
                                         SetToSeq(data.group_sessions)))
    IN migration_step(a3, "save_device_keys",
           save_device_keys(a3.db, user, device,
                            device_store_items(data.device_keys)))

\* The second loop of _update_from_legacy_db: the store when the loop has
\* ended or a call has raised.
RECURSIVE migrate_users(_, _, _)
migrate_users(store, users, data) ==
    IF users = <<>> \/ MigrationRaised(store.log) THEN store
    ELSE migrate_users(
            migrate_user(store, Head(users)[1], Head(users)[2],
                         data[Head(users)]),
            Tail(users), data)

\* What the first loop of _update_from_legacy_db reads for each legacy account.
legacy_data(d, users) ==
    [u \in Range(users) |->
        [account |-> Legacy_load_account(d, u[1], u[2]),
         sessions |-> Legacy_load_sessions(d, u[2]),
         group_sessions |-> Legacy_load_inbound_group_sessions(d, u[2]),
         device_keys |-> Legacy_load_device_keys(d, u[2])]]

\* The steps of _update_from_legacy_db before its second loop: the loads of
\* the first loop, the drop of the legacy tables, the drop of EncryptedRooms
\* and the creation of the tables of the store.
legacy_steps(users) ==
    [i \in DOMAIN users |->
        [op |-> "load", ident |-> users[i], raised |-> FALSE]]
    \o <<[op |-> "drop_tables", ident |-> <<>>, raised |-> FALSE],
         [op |-> "drop_tables", ident |-> <<>>, raised |-> FALSE],
         [op |-> "create_tables", ident |-> <<>>, raised |-> FALSE]>>

\* self.user_id = original_user; self.device_id = original_device, which a
\* loop that raised does not reach.
restore_identity(store, original_user, original_device) ==
    IF MigrationRaised(store.log) THEN store
    ELSE [store EXCEPT !.user_id = original_user,
                       !.device_id = original_device]

\* _update_from_legacy_db keeping the rows of the legacy encrypted-room table
\* as the rows of the new one
Mutant_update_keeps_encrypted_rooms(d, user_id, device_id, models) ==
    LET users == SetToSeq({<<a.user_id, a.device_id>> : a \in d["accounts"]})
        store == Legacy_post_init(d)
        data == legacy_data(store, users)
        d1 == drop_tables(store, LegacyMatrixStore_models)
        d2 == create_tables(d1, models)
        d3 == [d2 EXCEPT !["EncryptedRooms"] =
                            SetToSeq(store["LegacyEncryptedRooms"])]
    IN restore_identity(
           migrate_users([db |-> d3, user_id |-> user_id,
                          device_id |-> device_id,
                          log |-> legacy_steps(users)], users, data),
           user_id, device_id)

\* _update_from_legacy_db without the two assignments after the second loop
Mutant_update_keeps_last_identity(d, user_id, device_id, models) ==
    LET users == SetToSeq({<<a.user_id, a.device_id>> : a \in d["accounts"]})
        store == Legacy_post_init(d)
        data == legacy_data(store, users)
        d1 == drop_tables(store, LegacyMatrixStore_models)
        d2 == create_tables(drop_tables(d1, <<"EncryptedRooms">>), models)
    IN migrate_users([db |-> d2, user_id |-> user_id,
                      device_id |-> device_id,
                      log |-> legacy_steps(users)], users, data)

\* MatrixStore._update_from_legacy_db: [db, user_id, device_id, log], the
\* database and the identity the store is left with, and the steps that ran,
\* in order.  A call that raises ends the migration where it stands.
_update_from_legacy_db(d, user_id, device_id, models) ==
    LET users == SetToSeq({<<a.user_id, a.device_id>> : a \in d["accounts"]})
        store == Legacy_post_init(d)
        data == legacy_data(store, users)
        d1 == drop_tables(store, LegacyMatrixStore_models)
        d2 == create_tables(drop_tables(d1, <<"EncryptedRooms">>), models)
        original_user == user_id
        original_device == device_id
    IN restore_identity(
           migrate_users([db |-> d2, user_id |-> user_id,
                          device_id |-> device_id,
                          log |-> legacy_steps(users)], users, data),
           original_user, original_device)

\* __attrs_post_init__ after the legacy migration, m what the migration left
\* (the file as it was found where none ran), upgrading whenever the version
\* is not above 2
Mutant_post_init_upgrades_again(m, legacy, models) ==
    LET v == _get_store_version(m.db)
        d2 == IF v.version <= 2 THEN upgrate_to_v2(v.db) ELSE v.db
    IN [db |-> create_tables(d2, models),
        user_id |-> m.user_id, device_id |-> m.device_id,
        log |-> (IF legacy THEN <<"legacy">> ELSE <<>>)
                \o (IF v.version <= 2 THEN <<"v2">> ELSE <<>>),
        migration |-> m.log, raised |-> FALSE]

\* MatrixStore.__attrs_post_init__ after the legacy migration, m what the
\* migration left (the file as it was found where none ran): the version is
\* read, a v1 file upgraded and the tables created.  A migration that raised
\* has ended the construction.
upgrade_and_create(m, legacy, models) ==
    LET v == _get_store_version(m.db)
        d2 == IF v.version = 1 THEN upgrate_to_v2(v.db) ELSE v.db
    IN IF MigrationRaised(m.log)
       THEN [db |-> m.db, user_id |-> m.user_id, device_id |-> m.device_id,
             log |-> <<"legacy">>, migration |-> m.log, raised |-> TRUE]
       ELSE [db |-> create_tables(d2, models),
             user_id |-> m.user_id, device_id |-> m.device_id,
             log |-> (IF legacy THEN <<"legacy">> ELSE <<>>)
                     \o (IF v.version = 1 THEN <<"v2">> ELSE <<>>),
             migration |-> m.log, raised |-> FALSE]

\* MatrixStore.__attrs_post_init__ on the database file d, for a store with
\* the given models: [db, user_id, device_id, log, migration, raised], log the
\* migrations that ran, in order, and migration the steps of the legacy one.
post_init(d, user_id, device_id, models) ==
    LET legacy == ~table_exists(d, "storeversion") /\ table_exists(d, "accounts")
    IN upgrade_and_create(
           IF legacy THEN _update_from_legacy_db(d, user_id, device_id, models)
           ELSE [db |-> d, user_id |-> user_id, device_id |-> device_id,
                 log |-> <<>>],
           legacy, models)

\* ------------------------------------------------------------------- state
VARIABLES
    db,      \* the database file: table name -> rows
    ks,      \* the key files of the DefaultStore
    self,    \* the store object: [open, user_id, device_id]
    last,    \* the last call: [op, args, ret], with what it saw before
    stray,   \* peers a trust mutator was called for without a key record
    steps    \* calls made so far, where a run is bounded

vars == <<db, ks, self, last, stray, steps>>

\* No database file yet.
NoDatabase == [t \in {} |-> {}]

NoKeys == [trust_db |-> {}, blacklist_db |-> {}, ignore_db |-> {}]

\* ----------------------------------------------------- the trust backends
\* The six trust mutators, run on a DefaultStore and a SqliteStore that hold
\* the same device keys.  The three predicates write nothing: they are read
\* in every state.
TrustMutators == {"verify_device", "unverify_device", "blacklist_device",
                  "unblacklist_device", "ignore_device", "unignore_device"}
TrustSetters == {"verify_device", "blacklist_device", "ignore_device"}
TrustPredicates == {"is_device_verified", "is_device_blacklisted",
                    "is_device_ignored"}

\* The trust state a call is about.
Target(op) ==
    IF op \in {"verify_device", "unverify_device", "is_device_verified"}
    THEN "verified"
    ELSE IF op \in {"blacklist_device", "unblacklist_device",
                    "is_device_blacklisted"}
    THEN "blacklisted"
    ELSE "ignored"

Default_call(op, k, device) ==
    CASE op = "verify_device" -> Default_verify_device(k, device)
      [] op = "unverify_device" -> Default_unverify_device(k, device)
      [] op = "blacklist_device" -> Default_blacklist_device(k, device)
      [] op = "unblacklist_device" -> Default_unblacklist_device(k, device)
      [] op = "ignore_device" -> Default_ignore_device(k, device)
      [] op = "unignore_device" -> Default_unignore_device(k, device)

Sqlite_call(op, d, user_id, device_id, device) ==
    CASE op = "verify_device" -> Sqlite_verify_device(d, user_id, device_id, device)
      [] op = "unverify_device" -> Sqlite_unverify_device(d, user_id, device_id, device)
      [] op = "blacklist_device" -> Sqlite_blacklist_device(d, user_id, device_id, device)
      [] op = "unblacklist_device" -> Sqlite_unblacklist_device(d, user_id, device_id, device)
      [] op = "ignore_device" -> Sqlite_ignore_device(d, user_id, device_id, device)
      [] op = "unignore_device" -> Sqlite_unignore_device(d, user_id, device_id, device)

Default_query(op, k, device) ==
    CASE op = "is_device_verified" -> Default_is_device_verified(k, device)
      [] op = "is_device_blacklisted" -> Default_is_device_blacklisted(k, device)
      [] op = "is_device_ignored" -> Default_is_device_ignored(k, device)

Sqlite_query(op, d, user_id, device_id, device) ==
    CASE op = "is_device_verified" -> Sqlite_is_device_verified(d, user_id, device_id, device)
      [] op = "is_device_blacklisted" -> Sqlite_is_device_blacklisted(d, user_id, device_id, device)
      [] op = "is_device_ignored" -> Sqlite_is_device_ignored(d, user_id, device_id, device)

\* The trust predicates that hold of a device, in each backend.
Default_trust(k, device) ==
    {Target(q) : q \in {q \in TrustPredicates : Default_query(q, k, device)}}

Sqlite_trust(d, user_id, device_id, device) ==
    {Target(q) : q \in {q \in TrustPredicates :
                            Sqlite_query(q, d, user_id, device_id, device)}}

\* A peer device as the callers hold it; its identity keys are its own.
PeerDevice(p) ==
    [user_id |-> 1, id |-> p,
     keys |-> [kt \in {"ed25519", "curve25519"} |-> p],
     display_name |-> "", deleted |-> FALSE]

\* Device key mappings for a set of peers.
PeerDeviceKeys(ps) == [k \in {<<1, p>> : p \in ps} |-> PeerDevice(k[2])]

has_key_record(d, user_id, device_id, device) ==
    _get_device(d, user_id, device_id, device) # None

\* -------------------------------------------------- the table binding
\* What a call does with the database, in order: "enter" and "exit" of
\* `with self.database.bind_ctx(self.models)`, "read" and "write" of a table,
\* and "raise".

\* use_database (and the binding half of use_database_atomic): the body runs
\* inside the with block, which is left when the body returns and when it
\* raises.
use_database(body) == <<<<"enter", "">>>> \o body \o <<<<"exit", "">>>>

\* MatrixStore._get_account, decorated with use_database
_get_account_accesses == use_database(<<<<"read", "accounts">>>>)

\* MatrixStore.save_account, decorated: the insert and the update
save_account_accesses ==
    use_database(<<<<"write", "accounts">>, <<"write", "accounts">>>>)

\* The second loop of save_device_keys: per device the get, the save and one
\* Keys.replace for every key.
RECURSIVE update_devices_accesses(_, _)
update_devices_accesses(device_keys, items) ==
    IF items = <<>> THEN <<>>
    ELSE <<<<"read", "DeviceKeys">>, <<"write", "DeviceKeys">>>>
         \o [i \in 1..Cardinality(DOMAIN device_keys[Head(items)].keys) |->
                <<"write", "Keys">>]
         \o update_devices_accesses(device_keys, Tail(items))

\* MatrixStore.save_device_keys, decorated with use_database_atomic
save_device_keys_accesses(d, user_id, device_id, device_keys) ==
    use_database(
        _get_account_accesses
        \o IF _get_account(d, user_id, device_id) = None
           THEN <<<<"raise", "AssertionError">>>>
           ELSE IF DOMAIN device_keys = {} THEN <<>>
           ELSE <<<<"write", "DeviceKeys">>>>
                \o update_devices_accesses(device_keys,
                                           device_key_items(device_keys)))

\* SqliteStore._get_device, decorated with use_database
_get_device_accesses(d, user_id, device_id) ==
    use_database(
        _get_account_accesses
        \o IF _get_account(d, user_id, device_id) = None THEN <<>>
           ELSE <<<<"read", "DeviceKeys">>>>)

\* SqliteStore.is_device_verified, is_device_blacklisted, is_device_ignored:
\* not decorated; d.trust_state[0] is read after _get_device has returned.
is_device_accesses(d, user_id, device_id, device) ==
    _get_device_accesses(d, user_id, device_id)
    \o IF _get_device(d, user_id, device_id, device) = None THEN <<>>
       ELSE <<<<"read", "DeviceTrustState">>>>

\* The six trust mutators of SqliteStore: not decorated; the call of the
\* predicate, then _get_device, the assert and DeviceTrustState.replace.
mutator_accesses(op, d, user_id, device_id, device) ==
    LET held == Target(op) \in Sqlite_trust(d, user_id, device_id, device)
    IN is_device_accesses(d, user_id, device_id, device)
       \o IF held = (op \in TrustSetters) THEN <<>>
          ELSE _get_device_accesses(d, user_id, device_id)
               \o IF _get_device(d, user_id, device_id, device) = None
                  THEN <<<<"raise", "AssertionError">>>>
                  ELSE <<<<"write", "DeviceTrustState">>>>

TrustInit ==
    /\ db = post_init(NoDatabase, 1, 1, SqliteStore_models).db
    /\ ks = NoKeys
    /\ self = [open |-> TRUE, user_id |-> 1, device_id |-> 1]
    /\ last = [op |-> "open", args |-> <<>>, ret |-> <<>>]
    /\ stray = {}
    /\ steps = 0

TrustSaveAccount ==
    /\ db' = save_account(db, self.user_id, self.device_id,
                          [secret |-> 1, shared |-> FALSE])
    /\ last' = [op |-> "save_account", args |-> <<>>, ret |-> <<>>,
                accesses |-> save_account_accesses]
    /\ UNCHANGED <<ks, self, stray, steps>>

\* The key records arrive for the first peers first.
TrustSaveDeviceKeys ==
    \E ps \in {1..n : n \in 0..MaxPeers} :
        LET r == save_device_keys(db, self.user_id, self.device_id,
                                  PeerDeviceKeys(ps))
        IN /\ db' = IF r = AssertionError THEN db ELSE r
           /\ last' = [op |-> "save_device_keys", args |-> <<ps>>,
                       ret |-> [raised |-> r = AssertionError],
                       accesses |-> save_device_keys_accesses(
                           db, self.user_id, self.device_id,
                           PeerDeviceKeys(ps))]
           /\ UNCHANGED <<ks, self, stray, steps>>

TrustMutate ==
    \E op \in TrustMutators, p \in Peers :
        LET device == PeerDevice(p)
            a == Default_call(op, ks, device)
            b == Sqlite_call(op, db, self.user_id, self.device_id, device)
        IN /\ ks' = a.ks
           /\ db' = b.db
           /\ stray' = IF has_key_record(db, self.user_id, self.device_id, device)
                       THEN stray ELSE stray \cup {p}
           /\ last' = [op |-> op, args |-> <<p>>,
                       ret |-> [default |-> a.ret, sqlite |-> b.ret,
                                raised |-> b.raised],
                       had_record |-> has_key_record(db, self.user_id,
                                                     self.device_id, device),
                       had_trust_row |->
                           LET row == _get_device(db, self.user_id,
                                                  self.device_id, device)
                           IN row # None /\ trust_state(db, row) # <<>>,
                       default_before |-> Default_trust(ks, device),
                       sqlite_before |-> Sqlite_trust(db, self.user_id,
                                                      self.device_id, device),
                       default_same |-> a.ks = ks,
                       sqlite_same |-> b.db = db,
                       accesses |-> mutator_accesses(
                           op, db, self.user_id, self.device_id, device)]
           /\ UNCHANGED <<self, steps>>

TrustNext ==
    \/ TrustSaveAccount
    \/ TrustSaveDeviceKeys
    \/ TrustMutate

SpecTrust == TrustInit /\ [][TrustNext]_vars

\* ------------------------------------------------ the account-scoped store
\* A SqliteStore is opened, used and closed, for one identity at a time, on
\* one database file.  A run makes at most MaxSteps calls on open stores.
Idents == UserIds \X DeviceIds

\* The identities stores are opened for here: one user's devices.
StoreIdents == {<<1, 1>>, <<1, 2>>}

Closed == [open |-> FALSE, user_id |-> 0, device_id |-> 0]

\* What the callers can read of an identity's data.
Observe(d, id) ==
    [account |-> load_account(d, id[1], id[2]),
     sessions |-> load_sessions(d, id[1], id[2]),
     group_sessions |-> load_inbound_group_sessions(d, id[1], id[2]),
     device_keys |-> load_device_keys(d, id[1], id[2]),
     encrypted_rooms |-> load_encrypted_rooms(d, id[1], id[2]),
     key_requests |-> load_outgoing_key_requests(d, id[1], id[2]),
     trust |-> [p \in Peers |-> Sqlite_trust(d, id[1], id[2], PeerDevice(p))]]

ObserveAll(d) == [id \in Idents |-> Observe(d, id)]

\* The inputs of the calls.
AccountInputs == [secret : Secrets, shared : BOOLEAN]

SessionInputs ==
    [sender_key : {1, 2},
     session : [id : SessionIds, state : Secrets,
                creation_time : {1}, use_time : {2}]]

GroupSessionInputs ==
    [id : SessionIds, state : Secrets, sender_key : {1}, ed25519 : {1},
     room_id : {1}, forwarding_chain : {<<>>, <<1>>, <<2, 1>>}]

\* Two versions of a peer device: its flag, display name and keys differ.
DeviceVersion(p, v) ==
    [user_id |-> 1, id |-> p,
     keys |-> [kt \in {"ed25519", "curve25519"} |-> v],
     display_name |-> IF v = 1 THEN "" ELSE "name",
     deleted |-> v # 1]

\* A call saves one peer's device, or every peer's.
DeviceKeyInputs ==
    {[k \in {<<1, p>> : p \in ps} |-> DeviceVersion(k[2], v)] :
        ps \in {{p} : p \in Peers} \cup {Peers}, v \in {1, 2}}

RoomIds == {1, 2}

KeyRequestInputs ==
    [request_id : {1, 2}, session_id : {1}, room_id : {1}, algorithm : {"megolm"}]

\* The outcome of a writing call: the database it leaves (the one it found,
\* when it raised) and whether it raised.
Outcome(d, r) ==
    IF r = AssertionError \/ r = IntegrityError
    THEN [db |-> d, raised |-> TRUE]
    ELSE [db |-> r, raised |-> FALSE]

Call(op, args, r) ==
    /\ self.open
    /\ steps < MaxSteps
    /\ steps' = steps + 1
    /\ db' = Outcome(db, r).db
    /\ last' = [op |-> op, args |-> args, before |-> db,
                ident |-> <<self.user_id, self.device_id>>,
                raised |-> Outcome(db, r).raised]
    /\ UNCHANGED <<ks, self, stray>>

\* A database file an earlier run left: both identities have saved their
\* account, the first one the key record of peer 1, and the second one has
\* marked room 1 as encrypted.
EarlierRun ==
    LET d0 == post_init(NoDatabase, 1, 1, SqliteStore_models).db
        d1 == save_account(d0, 1, 1, [secret |-> 1, shared |-> FALSE])
        d2 == save_account(d1, 1, 2, [secret |-> 2, shared |-> TRUE])
        d3 == save_device_keys(d2, 1, 1, PeerDeviceKeys({1}))
    IN save_encrypted_rooms(d3, 1, 2, {1})

\* A run starts without a store object, on no file or on an earlier run's.
StoreInit ==
    /\ db \in {NoDatabase, EarlierRun}
    /\ ks = NoKeys
    /\ self = Closed
    /\ last = [op |-> "none", args |-> <<>>, before |-> NoDatabase]
    /\ stray = {}
    /\ steps = 0

\* SqliteStore(user_id, device_id, store_path): __attrs_post_init__
Open(idents, models) ==
    \E id \in idents :
        LET r == post_init(db, id[1], id[2], models)
        IN /\ ~self.open
           /\ db' = r.db
           /\ self' = IF r.raised THEN Closed
                       ELSE [open |-> TRUE, user_id |-> r.user_id,
                             device_id |-> r.device_id]
           /\ last' = [op |-> "open", args |-> id, before |-> db,
                       log |-> r.log, migration |-> r.migration,
                       raised |-> r.raised]
           /\ UNCHANGED <<ks, stray, steps>>

\* MatrixStore.close... the store object is dropped, the file stays.
Close ==
    /\ self.open
    /\ self' = Closed
    /\ last' = [op |-> "close", args |-> <<>>, before |-> db]
    /\ UNCHANGED <<db, ks, stray, steps>>

StoreOpen == Open(StoreIdents, SqliteStore_models)

SaveAccount ==
    \E account \in AccountInputs :
        Call("save_account", account,
             save_account(db, self.user_id, self.device_id, account))

SaveSession ==
    \E in \in SessionInputs :
        Call("save_session", in,
             save_session(db, self.user_id, self.device_id, in.sender_key,
                          in.session))

SaveInboundGroupSession ==
    \E session \in GroupSessionInputs :
        Call("save_inbound_group_session", session,
             save_inbound_group_session(db, self.user_id, self.device_id,
                                        session))

SaveDeviceKeys ==
    \E device_keys \in DeviceKeyInputs :
        Call("save_device_keys", device_keys,
             save_device_keys(db, self.user_id, self.device_id, device_keys))

SaveEncryptedRooms ==
    \E rooms \in SUBSET RoomIds :
        Call("save_encrypted_rooms", rooms,
             save_encrypted_rooms(db, self.user_id, self.device_id, rooms))

DeleteEncryptedRoom ==
    \E room \in RoomIds :
        Call("delete_encrypted_room", room, delete_encrypted_room(db, room))

AddOutgoingKeyRequest ==
    \E key_request \in KeyRequestInputs :
        Call("add_outgoing_key_request", key_request,
             add_outgoing_key_request(db, self.user_id, self.device_id,
                                      key_request))

RemoveOutgoingKeyRequest ==
    \E key_request \in KeyRequestInputs :
        Call("remove_outgoing_key_request", key_request,
             remove_outgoing_key_request(db, self.user_id, self.device_id,
                                         key_request))

\* A trust mutator of the SqliteStore.
StoreTrust ==
    \E op \in TrustMutators, p \in Peers :
        LET r == Sqlite_call(op, db, self.user_id, self.device_id, PeerDevice(p))
        IN Call(op, p, IF r.raised THEN AssertionError ELSE r.db)

\* store.upgrate_to_v2() called on the open store.
UpgradeAgain ==
    Call("upgrate_to_v2", <<>>, upgrate_to_v2(db))

StoreNext ==
    \/ StoreOpen
    \/ Close
    \/ SaveAccount
    \/ SaveSession
    \/ SaveInboundGroupSession
    \/ SaveDeviceKeys
    \/ SaveEncryptedRooms
    \/ DeleteEncryptedRoom
    \/ AddOutgoingKeyRequest
    \/ RemoveOutgoingKeyRequest
    \/ StoreTrust
    \/ UpgradeAgain

Spec == StoreInit /\ [][StoreNext]_vars

\* The database holds a store version row, and it is the current one.
CurrentGeneration(d) ==
    /\ table_exists(d, "storeversion")
    /\ d["storeversion"] # <<>>
    /\ d["storeversion"][1].version = store_version

\* ------------------------------------------------------------ the migrations
\* A database file of any generation is opened as a SqliteStore.  A legacy
\* file is written by LegacyMatrixStore objects first; a v1 file is one an
\* earlier release left.
IsLegacy(d) == ~table_exists(d, "storeversion") /\ table_exists(d, "accounts")
IsV1(d) ==
    /\ table_exists(d, "storeversion")
    /\ d["storeversion"] # <<>>
    /\ d["storeversion"][1].version = 1

\* absent -> legacy -> v1 -> v2
GenerationRank(d) ==
    IF IsLegacy(d) THEN 1
    ELSE IF IsV1(d) THEN 2
    ELSE IF CurrentGeneration(d) THEN 3
    ELSE 0

\* The identities legacy stores are opened for.
LegacyIdents == {<<1, 1>>, <<2, 2>>}

\* A v1 device-key row: the account, the peer and its two keys.
V1DeviceKeysRow(account, p) ==
    [account |-> account, user_id |-> 1, user_device_id |-> p,
     curve_key |-> p, ed_key |-> p, deleted |-> FALSE]

\* The devices a v1 file holds for an identity.
V1_load_device_keys(d, user_id, device_id) ==
    IF ~table_exists(d, "DeviceKeys_v1") THEN {}
    ELSE {[user_id |-> r.user_id, id |-> r.user_device_id,
           keys |-> [kt \in {"ed25519", "curve25519"} |->
                        IF kt = "ed25519" THEN r.ed_key ELSE r.curve_key],
           display_name |-> "", deleted |-> r.deleted] :
            r \in {r \in d["DeviceKeys_v1"] : r.account = <<user_id, device_id>>}}

\* A file of generation v1: identity (1, 1) holds an account, a session, a
\* group session with a chain, an encrypted room, a key request, the key
\* records of the peers ps and their trust state.
V1Database(ps, state) ==
    LET d0 == post_init(NoDatabase, 1, 1, SqliteStore_models).db
        d1 == save_account(d0, 1, 1, [secret |-> 1, shared |-> TRUE])
        d2 == save_session(d1, 1, 1, 1, [id |-> 1, state |-> 1,
                                         creation_time |-> 1, use_time |-> 2])
        d3 == save_inbound_group_session(d2, 1, 1,
                [id |-> 1, state |-> 1, sender_key |-> 1, ed25519 |-> 1,
                 room_id |-> 1, forwarding_chain |-> <<1>>])
        d4 == save_encrypted_rooms(d3, 1, 1, {1})
        d5 == add_outgoing_key_request(d4, 1, 1,
                [request_id |-> 1, session_id |-> 1, room_id |-> 1,
                 algorithm |-> "megolm"])
        d6 == drop_tables(d5, <<"DeviceKeys", "Keys", "DeviceTrustState">>)
        d7 == create_tables(d6, <<"DeviceKeys_v1", "DeviceTrustState">>)
    IN [d7 EXCEPT
            !["DeviceKeys_v1"] = {V1DeviceKeysRow(<<1, 1>>, p) : p \in ps},
            !["DeviceTrustState"] =
                {[device |-> <<<<1, 1>>, 1, p>>, state |-> state] : p \in ps},
            !["storeversion"] = <<[version |-> 1]>>]

V1Databases == {V1Database(ps, state) : ps \in SUBSET Peers, state \in TrustStates}

\* A legacy file an earlier run left: two accounts, the second with a group
\* session that was forwarded once.
LegacyEarlierRun ==
    LET d0 == Legacy_post_init(NoDatabase)
        d1 == Legacy_save_account(d0, 1, 1, [secret |-> 1, shared |-> FALSE])
        d2 == Legacy_save_account(d1, 2, 2, [secret |-> 2, shared |-> TRUE])
    IN Legacy_save_inbound_group_session(d2, 2,
            [id |-> 2, state |-> 1, sender_key |-> 1, ed25519 |-> 1,
             room_id |-> 1, forwarding_chain |-> <<1>>])

MigInit ==
    /\ db \in {NoDatabase, LegacyEarlierRun} \cup V1Databases
    /\ ks = NoKeys
    /\ self = Closed
    /\ last = [op |-> "none", args |-> <<>>, before |-> NoDatabase]
    /\ stray = {}
    /\ steps = 0

\* LegacyMatrixStore(user_id, device_id, store_path): __attrs_post_init__
LegacyOpen ==
    \E id \in LegacyIdents :
        /\ ~self.open
        /\ ~table_exists(db, "storeversion")
        /\ db' = Legacy_post_init(db)
        /\ self' = [open |-> TRUE, user_id |-> id[1], device_id |-> id[2]]
        /\ last' = [op |-> "legacy_open", args |-> id, before |-> db]
        /\ UNCHANGED <<ks, stray, steps>>

\* A call on the open LegacyMatrixStore.
LegacyCall(op, args, r) == IsLegacy(db) /\ Call(op, args, r)

LegacySaveAccount ==
    \E account \in AccountInputs :
        LegacyCall("save_account", account,
                   Legacy_save_account(db, self.user_id, self.device_id, account))

LegacySaveSession ==
    \E in \in SessionInputs :
        LegacyCall("save_session", in,
                   Legacy_save_session(db, self.device_id, in.sender_key,
                                       in.session))

LegacySaveInboundGroupSession ==
    \E session \in GroupSessionInputs :
        LegacyCall("save_inbound_group_session", session,
                   Legacy_save_inbound_group_session(db, self.device_id, session))

LegacySaveDeviceKeys ==
    \E device_keys \in DeviceKeyInputs :
        LegacyCall("save_device_keys", device_keys,
                   Legacy_save_device_keys(db, self.device_id, device_keys))

LegacySaveEncryptedRooms ==
    \E rooms \in SUBSET RoomIds :
        LegacyCall("save_encrypted_rooms", rooms,
                   Legacy_save_encrypted_rooms(db, self.user_id, self.device_id,
                                               rooms))

LegacyAddOutgoingKeyRequest ==
    \E key_request \in KeyRequestInputs :
        LegacyCall("add_outgoing_key_request", key_request,
                   Legacy_add_outgoing_key_request(db, self.user_id,
                                                   self.device_id, key_request))

\* The file is opened as a SqliteStore, for an identity that has a legacy
\* account or for one that has none.
MigIdents == {<<1, 1>>, <<2, 1>>}

MigOpen == Open(MigIdents, SqliteStore_models)

MigNext ==
    \/ LegacyOpen
    \/ Close
    \/ MigOpen
    \/ LegacySaveAccount
    \/ LegacySaveSession
    \/ LegacySaveInboundGroupSession
    \/ LegacySaveDeviceKeys
    \/ LegacySaveEncryptedRooms
    \/ LegacyAddOutgoingKeyRequest

SpecMig == MigInit /\ [][MigNext]_vars

\* ------------------------------------------------- saves larger than a chunk
\* The devices 1..n of user 1, each with its own keys.
BulkDeviceKeys(n) == [k \in {<<1, p>> : p \in 1..n} |-> PeerDevice(k[2])]

\* The store is open on an account that earlier calls left without device
\* records and rooms, or with some of them; one large save is then made.
ChunkInit ==
    /\ db \in {save_encrypted_rooms(
                  save_device_keys(
                      save_account(
                          post_init(NoDatabase, 1, 1, SqliteStore_models).db,
                          1, 1, [secret |-> 1, shared |-> FALSE]),
                      1, 1, BulkDeviceKeys(n)),
                  1, 1, rooms) :
                n \in {0, device_key_chunk + 1},
                rooms \in {{}, 1..room_chunk, 1..(room_chunk + 1)}}
    /\ ks = NoKeys
    /\ self = [open |-> TRUE, user_id |-> 1, device_id |-> 1]
    /\ last = [op |-> "none", args |-> <<>>, before |-> NoDatabase]
    /\ stray = {}
    /\ steps = 0

\* Numbers of devices below, at and above multiples of the chunk size.
DeviceCounts ==
    {1, device_key_chunk, device_key_chunk + 1, 2 * device_key_chunk + 50}

\* Sets of rooms below, at and above the chunk size, overlapping each other.
RoomSets ==
    {1..room_chunk, 1..(room_chunk + 1),
     (room_chunk - 199)..(3 * room_chunk - 100)}

BulkSaveDeviceKeys ==
    \E n \in DeviceCounts :
        steps = 0 /\ Call("save_device_keys", BulkDeviceKeys(n),
             save_device_keys(db, self.user_id, self.device_id,
                              BulkDeviceKeys(n)))

BulkSaveEncryptedRooms ==
    \E rooms \in RoomSets :
        steps = 0 /\ Call("save_encrypted_rooms", rooms,
             save_encrypted_rooms(db, self.user_id, self.device_id, rooms))

\* A call that raises inside its transaction after it wrote `written`.
Failed(op, args, written) ==
    /\ self.open
    /\ steps = 0
    /\ steps' = steps + 1
    /\ db' = use_database_atomic(db, [db |-> written, raised |-> TRUE])
    /\ last' = [op |-> op, args |-> args, before |-> db,
                ident |-> <<self.user_id, self.device_id>>,
                raised |-> TRUE, written |-> written]
    /\ UNCHANGED <<ks, self, stray>>

\* save_device_keys raising in a chunk after the first, or in the second
\* pass at its first or last device.
FailedSaveDeviceKeys ==
    \E n \in DeviceCounts :
        LET chunks == (n + device_key_chunk - 1) \div device_key_chunk
        IN \E at \in {<<c, 0>> : c \in 1..chunks} \cup {<<chunks, n - 1>>} :
              Failed("save_device_keys", BulkDeviceKeys(n),
                     device_keys_written(db, self.user_id, self.device_id,
                                         BulkDeviceKeys(n), at[1], at[2]))

\* save_encrypted_rooms raising in a chunk after the first.
FailedSaveEncryptedRooms ==
    \E rooms \in RoomSets :
        \E c \in 1..((Cardinality(rooms) - 1) \div room_chunk) :
            Failed("save_encrypted_rooms", rooms,
                   rooms_written(db, self.user_id, self.device_id, rooms, c))

ChunkNext ==
    \/ BulkSaveDeviceKeys
    \/ BulkSaveEncryptedRooms
    \/ FailedSaveDeviceKeys
    \/ FailedSaveEncryptedRooms

SpecChunk == ChunkInit /\ [][ChunkNext]_vars

\* The trust of the peer of the last call, now, in each backend.
LastDevice == PeerDevice(last.args[1])
Default_trust_now == Default_trust(ks, LastDevice)
Sqlite_trust_now == Sqlite_trust(db, self.user_id, self.device_id, LastDevice)

\* C1: in both backends, after any sequence of trust mutators from an empty
\* trust state, at most one of is_device_verified, is_device_blacklisted and
\* is_device_ignored is true of any device.
C1_AtMostOneTrustState ==
    \A p \in Peers :
        /\ Cardinality(Default_trust(ks, PeerDevice(p))) <= 1
        /\ Cardinality(Sqlite_trust(db, self.user_id, self.device_id,
                                    PeerDevice(p))) <= 1

\* C1's case: a verified device has just been ignored, in both backends.
C1_Witness ==
    /\ last.op = "ignore_device"
    /\ last.default_before = {"verified"}
    /\ last.sqlite_before = {"verified"}
    /\ Default_trust_now = {"ignored"}
    /\ Sqlite_trust_now = {"ignored"}

\* C2: for a device with a key record, from any prior trust state, once
\* verify_device / blacklist_device / ignore_device has returned, the matching
\* predicate is true and the other two are false, in both backends.
C2_SetterEstablishesTarget ==
    (last.op \in TrustSetters /\ last.had_record /\ ~last.ret.raised)
        => /\ Default_trust_now = {Target(last.op)}
           /\ Sqlite_trust_now = {Target(last.op)}

\* C2's case: blacklist, then verify.
C2_Witness ==
    /\ last.op = "verify_device"
    /\ last.had_record
    /\ last.default_before = {"blacklisted"}
    /\ last.sqlite_before = {"blacklisted"}
    /\ Default_trust_now = {"verified"}
    /\ Sqlite_trust_now = {"verified"}

\* C3: a trust mutator returns true exactly when the call changed the device's
\* trust state: a setter returns false, and writes nothing, exactly when the
\* device was already in the target state; an un-setter returns true exactly
\* when the device was in that state, and otherwise writes nothing.
C3_ReturnsWhetherChanged ==
    last.op \in TrustMutators =>
        LET was_default == Target(last.op) \in last.default_before
            was_sqlite == Target(last.op) \in last.sqlite_before
        IN /\ last.ret.default = (Default_trust_now # last.default_before)
           /\ last.ret.default = ~last.default_same
           /\ last.ret.default =
                (IF last.op \in TrustSetters THEN ~was_default ELSE was_default)
           /\ last.ret.raised => last.sqlite_same
           /\ ~last.ret.raised =>
                /\ last.ret.sqlite = (Sqlite_trust_now # last.sqlite_before)
                /\ last.ret.sqlite = ~last.sqlite_same
                /\ last.ret.sqlite =
                    (IF last.op \in TrustSetters THEN ~was_sqlite ELSE was_sqlite)

\* C3's case: verify_device on a device that is verified returns false.
C3_Witness ==
    /\ last.op = "verify_device"
    /\ last.had_record
    /\ "verified" \in last.default_before
    /\ "verified" \in last.sqlite_before
    /\ ~last.ret.default
    /\ ~last.ret.sqlite

\* C4: on devices that had a key record at every trust call made for them,
\* the DefaultStore and the SqliteStore return the same boolean from every
\* mutator and predicate, and classify every such device alike.
C4_BackendsAgree ==
    /\ \A p \in Peers \ stray : \A q \in TrustPredicates :
            Default_query(q, ks, PeerDevice(p))
                = Sqlite_query(q, db, self.user_id, self.device_id, PeerDevice(p))
    /\ (last.op \in TrustMutators /\ last.args[1] \notin stray)
            => /\ ~last.ret.raised
               /\ last.ret.default = last.ret.sqlite

\* C4's case: both backends un-ignore an ignored device and return true.
C4_Witness ==
    /\ last.op = "unignore_device"
    /\ last.args[1] \notin stray
    /\ last.ret.default
    /\ last.ret.sqlite
    /\ Default_trust_now = {}
    /\ Sqlite_trust_now = {}

\* C5: save_account(S) followed by load_account() returns S with its shared
\* flag, whether or not the identity had an account row.
C5_AccountRoundTrip ==
    last.op = "save_account" =>
        load_account(db, last.ident[1], last.ident[2])
            = [secret |-> last.args.secret, shared |-> last.args.shared]

\* C5's case: the account row existed, with another secret and flag.
C5_Witness ==
    /\ last.op = "save_account"
    /\ load_account(last.before, last.ident[1], last.ident[2]) # None
    /\ load_account(last.before, last.ident[1], last.ident[2]).secret
            # last.args.secret
    /\ load_account(last.before, last.ident[1], last.ident[2]).shared
            # last.args.shared

\* The last save, made once more with the same data.
SaveAgain ==
    CASE last.op = "save_account" ->
            save_account(db, last.ident[1], last.ident[2], last.args)
      [] last.op = "save_session" ->
            save_session(db, last.ident[1], last.ident[2],
                         last.args.sender_key, last.args.session)
      [] last.op = "save_inbound_group_session" ->
            save_inbound_group_session(db, last.ident[1], last.ident[2],
                                       last.args)
      [] last.op = "save_device_keys" ->
            save_device_keys(db, last.ident[1], last.ident[2], last.args)

\* C6: save_account, save_session, save_inbound_group_session or
\* save_device_keys made a second time with the same data raises nothing and
\* leaves every load_* result as the first save left it.
C6_SaveTwiceIsSaveOnce ==
    (/\ last.op \in {"save_account", "save_session",
                     "save_inbound_group_session", "save_device_keys"}
     /\ ~last.raised)
        => /\ ~Outcome(db, SaveAgain).raised
           /\ ObserveAll(SaveAgain) = ObserveAll(db)

\* C6's case: a group session with a forwarding chain of two keys was saved
\* over a stored one.
C6_Witness ==
    /\ last.op = "save_inbound_group_session"
    /\ ~last.raised
    /\ Len(last.args.forwarding_chain) = 2
    /\ \E r \in last.before["MegolmInboundSessions"] : r.session_id = last.args.id

\* C9: opening a database that is at the current generation changes no row:
\* every load_* and every trust predicate is as before the close.
C9_ReopenChangesNothing ==
    (last.op = "open" /\ CurrentGeneration(last.before))
        => /\ db = last.before
           /\ ObserveAll(db) = ObserveAll(last.before)

\* C9's case: a store holding a verified device is opened again.
C9_Witness ==
    /\ last.op = "open"
    /\ CurrentGeneration(last.before)
    /\ \E id \in Idents, p \in Peers : Observe(db, id).trust[p] = {"verified"}

\* The accounts of a legacy file.
LegacyAccountsOf(d) == {<<a.user_id, a.device_id>> : a \in d["accounts"]}

\* C7: once a legacy file is opened as a SqliteStore, load_account,
\* load_sessions, load_inbound_group_sessions (with the forwarding chains) and
\* load_device_keys return, for each account of the legacy file, what the
\* legacy store loaded for it, and nothing for any other identity.
C7_LegacyMigrationPreserves ==
    (last.op = "open" /\ IsLegacy(last.before)) =>
        LET store == Legacy_post_init(last.before)
        IN \A id \in Idents :
            IF id \in LegacyAccountsOf(store)
            THEN /\ load_account(db, id[1], id[2])
                        = Legacy_load_account(store, id[1], id[2])
                 /\ load_sessions(db, id[1], id[2])
                        = Legacy_load_sessions(store, id[2])
                 /\ load_inbound_group_sessions(db, id[1], id[2])
                        = Legacy_load_inbound_group_sessions(store, id[2])
                 /\ load_device_keys(db, id[1], id[2])
                        = Legacy_load_device_keys(store, id[2])
            ELSE /\ load_account(db, id[1], id[2]) = None
                 /\ load_sessions(db, id[1], id[2]) = {}
                 /\ load_inbound_group_sessions(db, id[1], id[2]) = {}
                 /\ load_device_keys(db, id[1], id[2]) = {}

\* C7's case: a legacy file of two accounts was migrated; one held a group
\* session with a forwarding chain, the other a session and device keys.
C7_Witness ==
    /\ last.op = "open"
    /\ IsLegacy(last.before)
    /\ last.log = <<"legacy">>
    /\ LegacyAccountsOf(last.before) = {<<1, 1>>, <<2, 2>>}
    /\ \E s \in load_inbound_group_sessions(db, 2, 2) : s.forwarding_chain # <<>>
    /\ load_sessions(db, 1, 1) # {}
    /\ load_device_keys(db, 1, 1) # {}

\* C8: after an open of a file of any generation the store version row holds
\* 2; no call moves the file to an earlier generation; an open runs each
\* migration step at most once, and none on a file that is at generation 2.
C8_OpenReachesCurrentGeneration ==
    /\ last.op = "open" =>
        /\ db["storeversion"] = <<[version |-> store_version]>>
        /\ \A i, j \in DOMAIN last.log : last.log[i] = last.log[j] => i = j
        /\ CurrentGeneration(last.before) => last.log = <<>>
    /\ last.op # "none" => GenerationRank(db) >= GenerationRank(last.before)

\* C8's case: a v1 file was opened and the v2 step ran.
C8_Witness ==
    /\ last.op = "open"
    /\ IsV1(last.before)
    /\ last.log = <<"v2">>
    /\ CurrentGeneration(db)

\* C10: opening a v1 file keeps every row but the trust states: the account,
\* the sessions, the group sessions with their chains, the device key
\* records, the encrypted rooms and the key requests load as before.
C10_UpgradePreservesRows ==
    (last.op = "open" /\ IsV1(last.before)) =>
        \A id \in Idents :
            /\ load_account(db, id[1], id[2])
                    = load_account(last.before, id[1], id[2])
            /\ load_sessions(db, id[1], id[2])
                    = load_sessions(last.before, id[1], id[2])
            /\ load_inbound_group_sessions(db, id[1], id[2])
                    = load_inbound_group_sessions(last.before, id[1], id[2])
            /\ load_device_keys(db, id[1], id[2])
                    = V1_load_device_keys(last.before, id[1], id[2])
            /\ load_encrypted_rooms(db, id[1], id[2])
                    = load_encrypted_rooms(last.before, id[1], id[2])
            /\ load_outgoing_key_requests(db, id[1], id[2])
                    = load_outgoing_key_requests(last.before, id[1], id[2])

\* C11: upgrate_to_v2 invoked on a database that is at generation 2 destroys
\* nothing: every load_* result and every trust predicate, of every identity,
\* is as before the call.
C11_RedundantUpgradeKeepsData ==
    (last.op = "upgrate_to_v2" /\ CurrentGeneration(last.before))
        => ObserveAll(db) = ObserveAll(last.before)

\* C12: once a legacy file is opened as a SqliteStore, load_encrypted_rooms
\* and load_outgoing_key_requests return nothing for every identity, whatever
\* rooms and key requests the legacy file held.
C12_RoomsAndRequestsNotMigrated ==
    (last.op = "open" /\ IsLegacy(last.before)) =>
        \A id \in Idents :
            /\ load_encrypted_rooms(db, id[1], id[2]) = {}
            /\ load_outgoing_key_requests(db, id[1], id[2]) = {}

\* C12's case: the legacy file held a room and a key request of an account
\* that was migrated.
C12_Witness ==
    /\ last.op = "open"
    /\ IsLegacy(last.before)
    /\ \E id \in LegacyAccountsOf(last.before) :
            /\ Legacy_load_encrypted_rooms(last.before, id[1], id[2]) # {}
            /\ Legacy_load_outgoing_key_requests(last.before, id[1], id[2]) # {}
            /\ load_account(db, id[1], id[2]) # None

\* The calls that need the account of the bound identity.
AccountCalls ==
    {"save_session", "save_inbound_group_session", "save_device_keys",
     "save_encrypted_rooms", "add_outgoing_key_request",
     "remove_outgoing_key_request"}

\* C13: without an account row for the bound identity, save_session,
\* save_inbound_group_session, save_device_keys, save_encrypted_rooms,
\* add_outgoing_key_request and remove_outgoing_key_request raise and leave
\* the database as it was.
C13_NoAccountNoWrite ==
    (/\ last.op \in AccountCalls
     /\ load_account(last.before, last.ident[1], last.ident[2]) = None)
        => /\ last.raised
           /\ db = last.before

\* C13's case: save_session on a store whose identity has no account row,
\* in a database where another identity has one.
C13_Witness ==
    /\ last.op = "save_session"
    /\ load_account(last.before, last.ident[1], last.ident[2]) = None
    /\ \E id \in Idents : load_account(last.before, id[1], id[2]) # None
    /\ last.raised

\* The identities without an account row.
NoAccount(d) == {id \in Idents : _get_account(d, id[1], id[2]) = None}

\* C14: for an identity without an account row, load_account returns None and
\* load_sessions, load_inbound_group_sessions, load_device_keys,
\* load_encrypted_rooms and load_outgoing_key_requests return nothing,
\* whatever the other accounts of the database hold.
C14_NoAccountReadsEmpty ==
    self.open =>
        \A id \in NoAccount(db) :
            /\ load_account(db, id[1], id[2]) = None
            /\ load_sessions(db, id[1], id[2]) = {}
            /\ load_inbound_group_sessions(db, id[1], id[2]) = {}
            /\ load_device_keys(db, id[1], id[2]) = {}
            /\ load_encrypted_rooms(db, id[1], id[2]) = {}
            /\ load_outgoing_key_requests(db, id[1], id[2]) = {}

\* C14's case: an identity has no account row while another identity of the
\* same database holds a session and device keys.
C14_Witness ==
    /\ self.open
    /\ NoAccount(db) # {}
    /\ \E id \in Idents :
            /\ load_sessions(db, id[1], id[2]) # {}
            /\ load_device_keys(db, id[1], id[2]) # {}

\* C15: on an account without device records, save_device_keys of N devices,
\* N below, at or above a multiple of the chunk size, makes load_device_keys
\* return exactly those N devices with exactly the keys given.
C15_ChunkedDeviceKeysComplete ==
    (/\ last.op = "save_device_keys"
     /\ ~last.raised
     /\ load_device_keys(last.before, last.ident[1], last.ident[2]) = {})
        => load_device_keys(db, last.ident[1], last.ident[2])
              = {last.args[k] : k \in DOMAIN last.args}

\* C15's case: 250 devices were saved on an account that had none.
C15_Witness ==
    /\ last.op = "save_device_keys"
    /\ ~last.raised
    /\ load_device_keys(last.before, last.ident[1], last.ident[2]) = {}
    /\ Cardinality(DOMAIN last.args) = 2 * device_key_chunk + 50
    /\ Cardinality(load_device_keys(db, last.ident[1], last.ident[2]))
          = 2 * device_key_chunk + 50

\* The rows of the encrypted-room table that belong to an identity.
RoomRowsOf(d, id) ==
    {i \in DOMAIN d["EncryptedRooms"] : d["EncryptedRooms"][i].account = id}

\* C16: save_encrypted_rooms(R) only adds: load_encrypted_rooms afterwards is
\* what it was before together with R, for R below, at and above the chunk
\* size, and no room is stored twice for the account.
C16_SaveRoomsOnlyAdds ==
    (last.op = "save_encrypted_rooms" /\ ~last.raised) =>
        /\ load_encrypted_rooms(db, last.ident[1], last.ident[2])
             = load_encrypted_rooms(last.before, last.ident[1], last.ident[2])
                  \cup last.args
        /\ Cardinality(RoomRowsOf(db, last.ident))
             = Cardinality(load_encrypted_rooms(db, last.ident[1],
                                                last.ident[2]))

\* C16's case: 900 rooms were saved over a set of rooms that overlaps them
\* and lies partly outside them.
C16_Witness ==
    /\ last.op = "save_encrypted_rooms"
    /\ ~last.raised
    /\ Cardinality(last.args) = 2 * room_chunk + 100
    /\ LET before == load_encrypted_rooms(last.before, last.ident[1],
                                          last.ident[2])
       IN /\ before \cap last.args # {}
          /\ before \ last.args # {}

SessionsWithId(d, id, session_id) ==
    {s \in load_sessions(d, id[1], id[2]) : s.session.id = session_id}

\* C18: after save_session(sender_key, session) on an account, load_sessions
\* returns exactly one session with that id, with the state and creation time
\* just saved, under the sender key just saved; every session with another
\* id is returned as before, also under the same sender key.
C18_SaveSessionReplacesById ==
    (last.op = "save_session" /\ ~last.raised) =>
        LET saved == last.args.session
            mine == SessionsWithId(db, last.ident, saved.id)
        IN /\ Cardinality(mine) = 1
           /\ \A s \in mine :
                 /\ s.sender_key = last.args.sender_key
                 /\ s.session.state = saved.state
                 /\ s.session.creation_time = saved.creation_time
           /\ load_sessions(db, last.ident[1], last.ident[2]) \ mine
                = load_sessions(last.before, last.ident[1], last.ident[2])
                    \ SessionsWithId(last.before, last.ident, saved.id)

\* C18's case: a session was saved over a stored one of the same id that had
\* another state and another sender key.
C18_Witness ==
    /\ last.op = "save_session"
    /\ ~last.raised
    /\ \E s \in SessionsWithId(last.before, last.ident, last.args.session.id) :
          /\ s.sender_key # last.args.sender_key
          /\ s.session.state # last.args.session.state

\* C19: after delete_encrypted_room(r) on a store bound to an account, the
\* account's load_encrypted_rooms is what it was without r, whatever the
\* other accounts of the database have marked.
C19_DeleteRemovesOwnRoom ==
    (last.op = "delete_encrypted_room" /\ ~last.raised) =>
        load_encrypted_rooms(db, last.ident[1], last.ident[2])
            = load_encrypted_rooms(last.before, last.ident[1], last.ident[2])
                \ {last.args}

\* C20: a call of save_session, save_inbound_group_session,
\* save_device_keys, save_encrypted_rooms, delete_encrypted_room,
\* add_outgoing_key_request, remove_outgoing_key_request or a trust mutator
\* on a store bound to one account leaves every load_* result and every trust
\* predicate of every other identity as it was.
C20_AccountIsolation ==
    (last.op \in AccountCalls \cup {"delete_encrypted_room"} \cup TrustMutators)
        => \A id \in Idents \ {last.ident} :
              Observe(db, id) = Observe(last.before, id)

\* C21: after save_device_keys, load_device_keys returns for every device of
\* the input its deleted flag, its display name and its keys as given, also
\* when a record of the device existed with other values.
C21_SaveDeviceKeysRefreshes ==
    (last.op = "save_device_keys" /\ ~last.raised) =>
        \A k \in DOMAIN last.args :
            \E dev \in load_device_keys(db, last.ident[1], last.ident[2]) :
                /\ dev.user_id = k[1]
                /\ dev.id = k[2]
                /\ dev.deleted = last.args[k].deleted
                /\ dev.display_name = last.args[k].display_name
                /\ \A kt \in DOMAIN last.args[k].keys :
                      /\ kt \in DOMAIN dev.keys
                      /\ dev.keys[kt] = last.args[k].keys[kt]

\* The group sessions an identity loads that have a given id.
GroupSessionsWithId(d, id, session_id) ==
    {s \in load_inbound_group_sessions(d, id[1], id[2]) : s.id = session_id}

\* C22: after save_inbound_group_session, the account loads one session of
\* that id, with the state just saved, and its chain holds every key that was
\* stored for the session before and every key of the saved chain, each once,
\* whichever calls were made for that session id before.
C22_ChainsAccumulate ==
    (last.op = "save_inbound_group_session" /\ ~last.raised) =>
        LET mine == GroupSessionsWithId(db, last.ident, last.args.id)
        IN /\ Cardinality(mine) = 1
           /\ \A s \in mine :
                 /\ s.state = last.args.state
                 /\ Range(s.forwarding_chain)
                      = Range(forwarded_chains(last.before, last.args.id))
                          \cup Range(last.args.forwarding_chain)
                 /\ Cardinality(Range(s.forwarding_chain))
                      = Len(s.forwarding_chain)

\* The peers without a trust row: those without a key record for the bound
\* account (also when the account is missing) and those whose key record has
\* no trust row.
Untrusted(d) ==
    {p \in Peers :
        LET row == _get_device(d, self.user_id, self.device_id, PeerDevice(p))
        IN row = None \/ trust_state(d, row) = <<>>}

\* C23: in the SqliteStore, of a device without key record (or without
\* account) and of a device with a key record and no trust row, the three
\* predicates are false, and unverify_device, unblacklist_device and
\* unignore_device return False, raise nothing and write nothing.
C23_NoTrustRowIsUnset ==
    /\ \A p \in Untrusted(db) :
          Sqlite_trust(db, self.user_id, self.device_id, PeerDevice(p)) = {}
    /\ (last.op \in TrustMutators \ TrustSetters /\ ~last.had_trust_row)
            => /\ ~last.ret.raised
               /\ ~last.ret.sqlite
               /\ last.sqlite_same

\* C23's case: unignore_device was called for a device that has a key record
\* and no trust row, while another device has no key record.
C23_Witness ==
    /\ last.op = "unignore_device"
    /\ last.had_record
    /\ ~last.had_trust_row
    /\ \E p \in Untrusted(db) :
          ~has_key_record(db, self.user_id, self.device_id, PeerDevice(p))

\* The number of bindings held after the first i steps of a call.
RECURSIVE Depth(_, _)
Depth(accesses, i) ==
    IF i = 0 THEN 0
    ELSE Depth(accesses, i - 1)
         + (IF accesses[i][1] = "enter" THEN 1
            ELSE IF accesses[i][1] = "exit" THEN -1 ELSE 0)

\* C24: every read and every write of a public operation happens while the
\* store's table binding is held, and no binding is held when the operation
\* has ended, returned or raised.
C24_BindingHeld ==
    "accesses" \in DOMAIN last =>
        /\ \A i \in DOMAIN last.accesses :
              last.accesses[i][1] \in {"read", "write"}
                  => Depth(last.accesses, i) > 0
        /\ Depth(last.accesses, Len(last.accesses)) = 0

\* C25: after the migration of a legacy file the store is bound to the
\* identity it was constructed for, whatever accounts the legacy file held,
\* also when that identity is not among them.
C25_MigrationKeepsIdentity ==
    (last.op = "open" /\ last.log # <<>> /\ last.log[1] = "legacy") =>
        /\ self.open
        /\ <<self.user_id, self.device_id>> = last.args

\* C25's case: a legacy file of two accounts was opened for an identity that
\* has no account in it.
C25_Witness ==
    /\ last.op = "open"
    /\ last.log # <<>>
    /\ last.log[1] = "legacy"
    /\ Cardinality(LegacyAccountsOf(last.before)) = 2
    /\ last.args \notin LegacyAccountsOf(last.before)
    /\ <<self.user_id, self.device_id>> = last.args

\* The calls of the second loop that need the account of their identity.
AccountSaves == {"save_session", "save_inbound_group_session",
                 "save_device_keys"}

\* C26: in the migration of a legacy file every legacy account is loaded
\* before a table is dropped, the tables of the store are created before
\* anything is saved, and save_account of an account runs before its
\* save_session, save_inbound_group_session and save_device_keys: no step
\* raises, and every legacy account has its account row afterwards.
C26_MigrationOrder ==
    (last.op = "open" /\ last.log # <<>> /\ last.log[1] = "legacy") =>
        LET log == last.migration
        IN /\ ~last.raised
           /\ \A i \in DOMAIN log : ~log[i].raised
           /\ \A u \in LegacyAccountsOf(last.before) :
                 \E i \in DOMAIN log : log[i].op = "load" /\ log[i].ident = u
           /\ \A i, j \in DOMAIN log :
                 (log[i].op = "load" /\ log[j].op = "drop_tables") => i < j
           /\ \E i \in DOMAIN log : log[i].op = "create_tables"
           /\ \A i, j \in DOMAIN log :
                 (/\ log[i].op = "create_tables"
                  /\ log[j].op \in AccountSaves \cup {"save_account"}) => i < j
           /\ \A j \in DOMAIN log :
                 log[j].op \in AccountSaves =>
                     \E i \in 1..(j - 1) : /\ log[i].op = "save_account"
                                           /\ log[i].ident = log[j].ident
           /\ \A u \in LegacyAccountsOf(last.before) :
                 _get_account(db, u[1], u[2]) # None

\* C26's case: a legacy file of two accounts, with a session and device keys
\* to save again, was migrated.
C26_Witness ==
    /\ last.op = "open"
    /\ last.log # <<>>
    /\ last.log[1] = "legacy"
    /\ Cardinality(LegacyAccountsOf(last.before)) = 2
    /\ Cardinality({i \in DOMAIN last.migration :
                        last.migration[i].op = "save_device_keys"}) = 2
    /\ db["OlmSessions"] # {}
    /\ db["DeviceKeys"] # {}

\* C27: in the SqliteStore a device that is verified, blacklisted or ignored
\* is still so after a save_device_keys that contains it, whether the saved
\* record repeats or changes the deleted flag, the display name and the keys.
C27_SaveDeviceKeysKeepsTrust ==
    (last.op = "save_device_keys" /\ ~last.raised) =>
        \A k \in DOMAIN last.args :
            LET device == PeerDevice(k[2])
                T == Sqlite_trust(last.before, last.ident[1], last.ident[2],
                                  device)
            IN T # {} =>
                 Sqlite_trust(db, last.ident[1], last.ident[2], device) = T

\* C27's case: a device that holds a trust state was saved again with another
\* deleted flag, display name and keys.
C27_Witness ==
    /\ last.op = "save_device_keys"
    /\ ~last.raised
    /\ \E k \in DOMAIN last.args :
          /\ Sqlite_trust(last.before, last.ident[1], last.ident[2],
                          PeerDevice(k[2])) # {}
          /\ last.args[k] = DeviceVersion(k[2], 2)
          /\ \E r \in db["DeviceKeys"] :
                /\ r.account = last.ident
                /\ r.device_id = k[2]
                /\ r.deleted
                /\ ~(CHOOSE b \in last.before["DeviceKeys"] :
                        DeviceKeysKey(b) = DeviceKeysKey(r)).deleted

\* C28: after save_session(sender_key, session), load_sessions returns a
\* session of the saved id under the saved sender key with the creation time
\* and the last-used time of the saved session.
C28_SessionTimesRoundTrip ==
    (last.op = "save_session" /\ ~last.raised) =>
        \E s \in SessionsWithId(db, last.ident, last.args.session.id) :
            /\ s.sender_key = last.args.sender_key
            /\ s.session.creation_time = last.args.session.creation_time
            /\ s.session.use_time = last.args.session.use_time

====
